---- MODULE Spec2Model ----
(***************************************************************************)
(* A model of the bladeski/logger client-side logging facade:              *)
(*   - InMemoryCoreLogger      (the canonical bounded buffer),             *)
(*   - LocalStorageCoreLogger  (the persistent-storage sink),              *)
(*   - ConsoleCoreLogger       (the console sink),                         *)
(*   - LoggingService          (the singleton coordinator).                *)
(* Every operation of the TypeScript source is one atomic action: the      *)
(* program is single-threaded and no handler suspends.                     *)
(***************************************************************************)
EXTENDS Integers, Sequences, FiniteSets, TLC

VARIABLES
    instance,           \* LoggingService.instance: has the singleton been constructed
    applicationName,    \* LoggingService#applicationName
    maxLogs,            \* LoggingService#maxLogs
    activeCoreLoggers,  \* LoggingService.activeCoreLoggers: the registered sinks, in order
    inMemoryLogger,     \* LoggingService#inMemoryLogger: the canonical InMemoryCoreLogger, or Null
    localStorage,       \* the storage collaborator: key -> Null | unparsable text | JSON text
    storageFault,       \* the storage collaborator's failure mode: "none", "quota" or "blocked"
    now,                \* the wall clock read by `new Date()`
    inserted,           \* history: the entries handed to addEntry since the buffer was last empty
    capacityFixed,      \* history: setMaxLogs has not changed the capacity since the buffer was last empty
    lastCall            \* observation of the most recent public call: what it did and how it ended

vars == <<instance, applicationName, maxLogs, activeCoreLoggers, inMemoryLogger,
          localStorage, storageFault, now, inserted, capacityFixed, lastCall>>

serviceVars == <<instance, applicationName, maxLogs, activeCoreLoggers, localStorage, storageFault>>

-----------------------------------------------------------------------------
(* Bounds of the model.                                                    *)

MaxCap == 3         \* largest capacity passed to setMaxLogs / initialize / the constructor
MaxTime == 5        \* the clock stops here: at most MaxTime records are ever created
MaxStored == 2      \* longest array the storage collaborator holds before the program starts

(* Program constants.                                                      *)

DefaultMaxLogs == 1000      \* InMemoryCoreLogger constructor default, LoggingService#maxLogs
DefaultMaxStored == 500     \* LocalStorageCoreLogger constructor default
DefaultApplicationName == "application"

-----------------------------------------------------------------------------
(* JavaScript values.  Primitives carry their value; a caller-owned object *)
(* lives in the Heap and is referred to by Ref(id), so that two references *)
(* to one object are distinguishable from two equal objects; Obj and Arr   *)
(* are objects freshly allocated by the logger itself (a spread, a         *)
(* serializer output, a parsed JSON text), which nothing else refers to.   *)

Undefined == [t |-> "undefined"]
Null == [t |-> "null"]
Str(s) == [t |-> "string", v |-> s]
Num(n) == [t |-> "number", v |-> n]
Bool(b) == [t |-> "boolean", v |-> b]
Ref(id) == [t |-> "ref", id |-> id]
Obj(kv) == [t |-> "object", kv |-> kv]
Arr(items) == [t |-> "array", items |-> items]
\* an Error instance; `stack` is Undefined when the engine provides none
Err(name, message, stack) == [t |-> "error", name |-> name, message |-> message, stack |-> stack]

\* a function; `throws` tells whether calling it throws
Fn(name, throws) == [t |-> "function", name |-> name, throws |-> throws]
\* the value of an accessor property whose getter throws: reading it throws
Throws == [t |-> "throws"]
\* Date, RegExp, Map and Set instances
DateOf(iso) == [t |-> "date", iso |-> iso]
RegExpOf(text) == [t |-> "regexp", text |-> text]
MapOf(entries) == [t |-> "map", entries |-> entries]
SetOf(items) == [t |-> "set", items |-> items]

\* The caller-owned objects log calls may pass as data:
\*   1: { k: "v" }      2: self = { self: self }      3: [ "a" ]
\*   4: { a: x, b: x } with x the object 1
\*   5: m = new Map([["self", m]])
\*   6: { get bad() { throw ... } }
\*   7: o = { m: new Map([["k", o]]) }, the Map being the object 8
\*   9: s = new Set([s])
Heap ==
    (1 :> Obj(<< <<"k", Str("v")>> >>)) @@
    (2 :> Obj(<< <<"self", Ref(2)>> >>)) @@
    (3 :> Arr(<< Str("a") >>)) @@
    (4 :> Obj(<< <<"a", Ref(1)>>, <<"b", Ref(1)>> >>)) @@
    (5 :> MapOf(<< <<Str("self"), Ref(5)>> >>)) @@
    (6 :> Obj(<< <<"bad", Throws>> >>)) @@
    (7 :> Obj(<< <<"m", Ref(8)>> >>)) @@
    (8 :> MapOf(<< <<Str("k"), Ref(7)>> >>)) @@
    (9 :> SetOf(<< Ref(9) >>))

IsObject(val) == val.t \in {"ref", "object", "array", "error", "date", "regexp", "map", "set"}

\* `typeof val === 'object'`: objects, arrays and null
TypeofObject(val) == IsObject(val) \/ val.t = "null"

\* JavaScript truthiness, as in `entry.data ? ... : undefined`
Truthy(val) ==
    CASE val.t \in {"undefined", "null"} -> FALSE
      [] val.t = "string" -> val.v # ""
      [] val.t = "number" -> val.v # 0
      [] val.t = "boolean" -> val.v
      [] OTHER -> TRUE

\* the object a value denotes
Deref(val) == IF val.t = "ref" THEN Heap[val.id] ELSE val

\* Object.keys(val) paired with val[key], in key order; array keys are indices
IndexKey(i) == CASE i = 1 -> "0" [] i = 2 -> "1" [] i = 3 -> "2" [] OTHER -> "n"
Entries(val) ==
    LET o == Deref(val) IN
    CASE o.t = "object" -> o.kv
      [] o.t = "array" -> [i \in 1..Len(o.items) |-> <<IndexKey(i), o.items[i]>>]
      [] OTHER -> << >>

\* { ...a, ...b }: the keys of a in order with b's values on collision, then b's new keys
HasKey(kv, k) == \E i \in 1..Len(kv) : kv[i][1] = k
ValueOf(kv, k) == kv[CHOOSE i \in 1..Len(kv) : kv[i][1] = k][2]
Spread(a, b) ==
    LET overridden == [i \in 1..Len(a) |->
                          IF HasKey(b, a[i][1]) THEN <<a[i][1], ValueOf(b, a[i][1])>> ELSE a[i]]
        fresh == SelectSeq(b, LAMBDA p : ~HasKey(a, p[1]))
    IN  overridden \o fresh

-----------------------------------------------------------------------------
(* safeSerialize (InMemoryCoreLogger and LocalStorageCoreLogger carry the  *)
(* same code).  `seen` is the WeakSet: it is threaded through the whole    *)
(* traversal and nothing is ever removed from it.  Only caller-owned       *)
(* objects can be met twice; an Obj or Arr is a fresh object.              *)

RECURSIVE serializer(_, _, _)
RECURSIVE serializeEach(_, _, _)
RECURSIVE eachAfter(_, _, _)

\* the outputs of the first value, `h`, and of the others, `r`
eachJoined(h, r) == [outs |-> <<h.out>> \o r.outs, seen |-> r.seen, threw |-> r.threw]

\* the loop `for (const key of Object.keys(val)) out[key] = serializer(val[key])`
\* and the `.map(... serializer(v))` over a Map's or Set's members: an
\* exception ends the traversal
serializeEach(vals, seen, stack) ==
    IF vals = << >>
    THEN [outs |-> << >>, seen |-> seen, threw |-> FALSE]
    ELSE eachAfter(serializer(Head(vals), seen, stack), Tail(vals), stack)

\* the rest of the loop after the first value was serialized as `h`
eachAfter(h, rest, stack) ==
    IF h.threw
    THEN [outs |-> << >>, seen |-> h.seen, threw |-> TRUE]
    ELSE eachJoined(h, serializeEach(rest, h.seen, stack))

\* the members a Map or Set hands to serializer, in order
Members(o) ==
    IF o.t = "map" THEN [i \in 1..Len(o.entries) |-> o.entries[i][2]] ELSE o.items

\* what serializer returns for the Map or Set `o` whose members were serialized as `r`
collectionOut(o, r) ==
    [out |-> IF r.threw THEN Undefined
             ELSE IF o.t = "map"
             THEN Obj(<< <<"__type", Str("Map")>>,
                         <<"value", Arr([i \in 1..Len(o.entries) |->
                               Arr(<<o.entries[i][1], r.outs[i]>>)])>> >>)
             ELSE Obj(<< <<"__type", Str("Set")>>, <<"value", Arr(r.outs)>> >>),
     seen |-> r.seen, threw |-> r.threw]

\* what serializer returns for the object or array `o` with the properties
\* `kvs`, whose values were serialized as `r`
objectOut(o, kvs, r) ==
    [out |-> IF r.threw THEN Undefined
             ELSE IF o.t = "array"
             THEN Arr(r.outs)
             ELSE Obj([i \in 1..Len(kvs) |-> <<kvs[i][1], r.outs[i]>>]),
     seen |-> r.seen, threw |-> r.threw]

\* `stack` holds the Maps and Sets being traversed, each with the `seen` it
\* was entered with: they are not put in `seen`, so entering one again with
\* the same `seen` recurses until the engine throws a RangeError
serializer(val, seen, stack) ==
    LET o == Deref(val) IN
    CASE val.t = "throws" -> [out |-> Undefined, seen |-> seen, threw |-> TRUE]
      [] o.t = "error" ->
            [out |-> Obj(<< <<"name", Str(o.name)>>, <<"message", Str(o.message)>>,
                            <<"stack", o.stack>> >>),
             seen |-> seen, threw |-> FALSE]
      [] o.t = "date" ->
            [out |-> Obj(<< <<"__type", Str("Date")>>, <<"value", Str(o.iso)>> >>),
             seen |-> seen, threw |-> FALSE]
      [] o.t = "regexp" ->
            [out |-> Obj(<< <<"__type", Str("RegExp")>>, <<"value", Str(o.text)>> >>),
             seen |-> seen, threw |-> FALSE]
      [] o.t \in {"map", "set"} ->
            IF val.t = "ref" /\ <<val.id, seen>> \in stack
            THEN [out |-> Undefined, seen |-> seen, threw |-> TRUE]
            ELSE collectionOut(o, serializeEach(Members(o), seen,
                                   IF val.t = "ref" THEN stack \cup {<<val.id, seen>>}
                                   ELSE stack))
      [] o.t \in {"object", "array"} ->
            IF val.t = "ref" /\ val.id \in seen
            THEN [out |-> Str("[Circular]"), seen |-> seen, threw |-> FALSE]
            ELSE objectOut(o, Entries(val),
                           serializeEach([i \in 1..Len(Entries(val)) |-> Entries(val)[i][2]],
                                         IF val.t = "ref" THEN seen \cup {val.id} ELSE seen,
                                         stack))
      [] OTHER -> [out |-> val, seen |-> seen, threw |-> FALSE]

NumberToString(n) == CASE n = 0 -> "0" [] n = 1 -> "1" [] n = 2 -> "2" [] n = 42 -> "42" [] OTHER -> "NaN"

RECURSIVE StringOf(_)
RECURSIVE Join(_)

\* Array.prototype.join(","): null and undefined elements give the empty text
Join(items) ==
    IF items = << >> THEN [threw |-> FALSE, out |-> ""]
    ELSE LET h == IF Head(items).t \in {"null", "undefined"}
                  THEN [threw |-> FALSE, out |-> ""]
                  ELSE StringOf(Head(items))
             r == Join(Tail(items))
         IN  [threw |-> h.threw \/ r.threw,
              out |-> IF Len(items) = 1 THEN h.out ELSE h.out \o "," \o r.out]

\* String(value): an object is converted by its own toString when it has one
\* (calling it may throw), else by the inherited one
StringOf(value) ==
    LET o == Deref(value) IN
    CASE o.t = "string" -> [threw |-> FALSE, out |-> o.v]
      [] o.t = "number" -> [threw |-> FALSE, out |-> NumberToString(o.v)]
      [] o.t = "boolean" -> [threw |-> FALSE, out |-> IF o.v THEN "true" ELSE "false"]
      [] o.t = "null" -> [threw |-> FALSE, out |-> "null"]
      [] o.t = "undefined" -> [threw |-> FALSE, out |-> "undefined"]
      [] o.t = "function" -> [threw |-> FALSE, out |-> "function " \o o.name \o "() { }"]
      [] o.t = "error" -> [threw |-> FALSE, out |-> o.name \o ": " \o o.message]
      [] o.t = "date" -> [threw |-> FALSE, out |-> o.iso]
      [] o.t = "regexp" -> [threw |-> FALSE, out |-> o.text]
      [] o.t = "map" -> [threw |-> FALSE, out |-> "[object Map]"]
      [] o.t = "set" -> [threw |-> FALSE, out |-> "[object Set]"]
      [] o.t = "array" -> Join(o.items)
      [] OTHER ->
            IF HasKey(o.kv, "toString") /\ ValueOf(o.kv, "toString").t = "function"
            THEN [threw |-> ValueOf(o.kv, "toString").throws,
                  out |-> ValueOf(o.kv, "toString").name]
            ELSE [threw |-> HasKey(o.kv, "toString") /\ ValueOf(o.kv, "toString").t = "throws",
                  out |-> "[object Object]"]

\* the try/catch of safeSerialize: `r` is what serializer(value) did and
\* `text` what String(value), called in the catch block, does
serializedOrText(r, text) ==
    [threw |-> r.threw /\ text.threw,
     out |-> IF r.threw THEN Str(text.out) ELSE r.out]

\* safeSerialize, exceptions included: it throws when the traversal throws
\* and String(value) throws too
trySafeSerialize(value) == serializedOrText(serializer(value, {}, {}), StringOf(value))

safeSerializeThrows(value) == trySafeSerialize(value).threw

safeSerialize(value) == trySafeSerialize(value).out

-----------------------------------------------------------------------------
(* The message-or-event argument of a log call.                            *)

Text(s) == [k |-> "text", text |-> s]
\* `target` is the target's constructor name, or Null when the event has no target
GenericEvent(type, target) == [k |-> "Event", type |-> type, target |-> target,
                               timeStamp |-> Num(0), request |-> Undefined]
NewErrorEvent(message, filename, lineno, colno, error) ==
    [k |-> "ErrorEvent", type |-> "error", target |-> Null, message |-> message,
     filename |-> filename, lineno |-> lineno, colno |-> colno, error |-> error]


\* extractMessage giving an error event's message without its location
extractMessageNoLocation(messageOrEvent) ==
    CASE messageOrEvent.k = "text" -> messageOrEvent.text
      [] messageOrEvent.k = "ErrorEvent" -> messageOrEvent.message
      [] messageOrEvent.k = "Event" ->
            messageOrEvent.type \o " event on "
                \o (IF messageOrEvent.target.t = "string" /\ messageOrEvent.target.v # ""
                    THEN messageOrEvent.target.v ELSE "unknown target")
      [] OTHER -> "Unknown event"

\* InMemoryCoreLogger.extractMessage
extractMessage(messageOrEvent) ==
    CASE messageOrEvent.k = "text" -> messageOrEvent.text
      [] messageOrEvent.k = "ErrorEvent" ->
            messageOrEvent.message \o " (" \o messageOrEvent.filename \o ":"
                \o NumberToString(messageOrEvent.lineno) \o ")"
      [] messageOrEvent.k = "Event" ->
            messageOrEvent.type \o " event on "
                \o (IF messageOrEvent.target.t = "string" /\ messageOrEvent.target.v # ""
                    THEN messageOrEvent.target.v ELSE "unknown target")
      [] OTHER -> "Unknown event"

\* extractEventData throws when the spread `...additionalData` reads an
\* accessor property whose getter throws
extractEventDataThrows(messageOrEvent, additionalData) ==
    /\ IsObject(additionalData)
    /\ \E i \in 1..Len(Entries(additionalData)) : Entries(additionalData)[i][2] = Throws

\* the merge with the extracted fields winning over the caller's keys:
\* `{ ...additionalData, ...eventData }`
mergeEventDataWins(eventData, additionalData) ==
    IF additionalData = Undefined THEN eventData
    ELSE IF TypeofObject(additionalData) /\ additionalData # Null
    THEN Spread(Entries(additionalData), eventData)
    ELSE Spread(eventData, << <<"additionalData", additionalData>> >>)

\* the `if (additionalData !== undefined)` block of extractEventData
mergeAdditionalData(eventData, additionalData) ==
    IF additionalData = Undefined THEN eventData
    ELSE IF TypeofObject(additionalData) /\ additionalData # Null
    THEN Spread(eventData, Entries(additionalData))
    ELSE Spread(eventData, << <<"additionalData", additionalData>> >>)

\* `Object.keys(eventData).length > 0 ? eventData : undefined`
keyedOrUndefined(eventData) == IF Len(eventData) > 0 THEN Obj(eventData) ELSE Undefined

\* InMemoryCoreLogger.extractEventData
extractEventData(messageOrEvent, additionalData) ==
    LET eventData ==
            CASE messageOrEvent.k = "ErrorEvent" ->
                    << <<"filename", Str(messageOrEvent.filename)>>,
                       <<"lineno", Num(messageOrEvent.lineno)>>,
                       <<"colno", Num(messageOrEvent.colno)>>,
                       <<"error", IF messageOrEvent.error.t = "error"
                                     /\ Truthy(messageOrEvent.error.stack)
                                  THEN messageOrEvent.error.stack
                                  ELSE messageOrEvent.error>> >>
              [] messageOrEvent.k = "Event" ->
                    << <<"type", Str(messageOrEvent.type)>>,
                       <<"target", IF messageOrEvent.target.t = "string"
                                   THEN messageOrEvent.target ELSE Undefined>>,
                       <<"timeStamp", messageOrEvent.timeStamp>> >>
                    \o (IF IsObject(messageOrEvent.request)
                           /\ \E i \in 1..Len(Entries(messageOrEvent.request)) :
                                 /\ Entries(messageOrEvent.request)[i][1] \in {"url", "method"}
                                 /\ Entries(messageOrEvent.request)[i][2] # Undefined
                        THEN LET req == Entries(messageOrEvent.request) IN
                             << <<"url", IF HasKey(req, "url") THEN ValueOf(req, "url") ELSE Undefined>>,
                                <<"method", IF HasKey(req, "method") THEN ValueOf(req, "method") ELSE Undefined>> >>
                        ELSE << >>)
              [] OTHER -> << >>
    IN  keyedOrUndefined(mergeAdditionalData(eventData, additionalData))

-----------------------------------------------------------------------------
(* InMemoryCoreLogger: the bounded buffer.                                 *)

LogLevel == {"trace", "debug", "info", "success", "warn", "error", "fatal"}

\* ILogEntry; `source` and `data` are JavaScript values, Undefined when absent
LogEntry(timestamp, level, message, data, source) ==
    [timestamp |-> timestamp, level |-> level, message |-> message,
     data |-> data, source |-> source]

\* constructor(maxLogs = 1000)
\* `id` is the object's identity: 0 for a logger the service or a test constructs
NewInMemoryCoreLogger(max) == [id |-> 0, logs |-> << >>, maxLogs |-> max]

\* InMemoryCoreLogger.setMaxLogs
setMaxLogs(logger, max) == [logger EXCEPT !.maxLogs = max]

\* Array.prototype.slice(start): a negative start counts from the end, and -0 is 0
slice(arr, start) ==
    LET len == Len(arr)
        from == IF start < 0
                THEN (IF len + start > 0 THEN len + start ELSE 0)
                ELSE (IF start < len THEN start ELSE len)
    IN  SubSeq(arr, from + 1, len)

\* addEntry trimming from the wrong end: `this.logs.slice(0, this.maxLogs)`
addEntryKeepsOldest(logger, entry) ==
    LET serializedData == IF Truthy(entry.data) THEN safeSerialize(entry.data) ELSE Undefined
        stored == [entry EXCEPT !.data = serializedData]
        pushed == Append(logger.logs, stored)
    IN  [logger EXCEPT !.logs = IF Len(pushed) > logger.maxLogs
                                THEN SubSeq(pushed, 1, logger.maxLogs)
                                ELSE pushed]

\* addEntry evicting one record per insertion: `this.logs.shift()`
addEntryEvictsOne(logger, entry) ==
    LET serializedData == IF Truthy(entry.data) THEN safeSerialize(entry.data) ELSE Undefined
        stored == [entry EXCEPT !.data = serializedData]
        pushed == Append(logger.logs, stored)
    IN  [logger EXCEPT !.logs = IF Len(pushed) > logger.maxLogs THEN Tail(pushed) ELSE pushed]

\* `data ? this.safeSerialize(data) : undefined`
trySerializeData(data) ==
    IF Truthy(data) THEN trySafeSerialize(data) ELSE [threw |-> FALSE, out |-> Undefined]

\* addEntry throws, before anything is pushed, when safeSerialize does
addEntryThrows(entry) == trySerializeData(entry.data).threw

\* `this.logs.push(stored)` and the trimming that follows
pushStored(logger, stored) ==
    [logger EXCEPT !.logs = IF Len(logger.logs) + 1 > logger.maxLogs
                            THEN slice(Append(logger.logs, stored), 0 - logger.maxLogs)
                            ELSE Append(logger.logs, stored)]

\* addEntry once entry.data was serialized as `serialized`
addSerialized(logger, entry, serialized) ==
    IF serialized.threw THEN logger
    ELSE pushStored(logger, [entry EXCEPT !.data = serialized.out])

\* InMemoryCoreLogger.addEntry: the logger it leaves
addEntry(logger, entry) == addSerialized(logger, entry, trySerializeData(entry.data))

\* InMemoryCoreLogger.log throws when extractEventData does: the entry is
\* built outside the try block
inMemoryLogThrows(messageOrEvent, data) == extractEventDataThrows(messageOrEvent, data)

\* InMemoryCoreLogger.log: build the entry, then addEntry, whose exceptions
\* are caught and reported on the console
inMemoryLog(logger, level, messageOrEvent, data, source, time) ==
    IF inMemoryLogThrows(messageOrEvent, data) THEN logger
    ELSE addEntry(logger, LogEntry(time, level, extractMessage(messageOrEvent),
                                   extractEventData(messageOrEvent, data), source))

\* InMemoryCoreLogger.getLogs(level?)
NoLevel == ""

\* getLogs without its filter: every record is returned whatever the level
getLogsIgnoresLevel(logger, level) == logger.logs

getLogs(logger, level) ==
    IF level # NoLevel
    THEN SelectSeq(logger.logs, LAMBDA l : l.level = level)
    ELSE logger.logs

\* InMemoryCoreLogger.clearLogs
clearLogs(logger) == [logger EXCEPT !.logs = << >>]

-----------------------------------------------------------------------------
(* JSON and the storage collaborator.  localStorage maps a key to Null     *)
(* (no item), to an unparsable text, or to the text of a JSON value.       *)

RECURSIVE jsonValue(_)
\* what JSON.parse(JSON.stringify(val)) yields for an acyclic val: object
\* properties holding undefined are dropped, array holes become null
jsonValue(val) ==
    CASE val.t = "error" -> Obj(<< >>)
      [] val.t \in {"undefined", "function"} -> Undefined
      [] Deref(val).t = "date" -> Str(Deref(val).iso)
      [] Deref(val).t \in {"regexp", "map", "set"} -> Obj(<< >>)
      [] Deref(val).t = "array" ->
            LET items == Deref(val).items IN
            Arr([i \in 1..Len(items) |->
                    IF jsonValue(items[i]) = Undefined THEN Null ELSE jsonValue(items[i])])
      [] Deref(val).t = "object" ->
            LET kept == SelectSeq(Deref(val).kv, LAMBDA p : jsonValue(p[2]) # Undefined) IN
            Obj([i \in 1..Len(kept) |-> <<kept[i][1], jsonValue(kept[i][2])>>])
      [] OTHER -> val

RECURSIVE isCyclic(_, _)
\* JSON.stringify throws a TypeError on a value that contains itself, and
\* whatever a getter it calls throws
isCyclic(val, path) ==
    IF val.t = "throws" \/ (val.t = "ref" /\ val.id \in path) THEN TRUE
    ELSE IF ~IsObject(val) \/ val.t = "error" THEN FALSE
    ELSE LET path1 == IF val.t = "ref" THEN path \cup {val.id} ELSE path
             kvs == Entries(val)
         IN  \E i \in 1..Len(kvs) : isCyclic(kvs[i][2], path1)

\* Date.prototype.toISOString and `new Date(text)`
toISOString(date) == [iso |-> date]
NewDate(text) == text.iso

\* a saved record: ILogEntry with the timestamp as ISO text, after a JSON round trip
SavedEntry(entry) ==
    [entry EXCEPT !.timestamp = toISOString(entry.timestamp), !.data = jsonValue(entry.data)]

JsonText(value) == [t |-> "json", v |-> value]
Unparsable == [t |-> "text"]

AppNames == {DefaultApplicationName, "app2"}
StorageKey(name) == name \o "-logs"
StorageKeys == {StorageKey(name) : name \in AppNames}

-----------------------------------------------------------------------------
(* The sinks (ICoreLogger).  A sink is an object: `id` is its identity;    *)
(* the sinks LoggingService.initialize constructs are fresh objects (0),   *)
(* the caller's own sinks are numbered from 1.                             *)

NewConsoleCoreLogger == [kind |-> "console", id |-> 0, storageKey |-> "", maxStored |-> 0]
\* constructor(storageKey = 'application-logs', maxStored = 500)
NewLocalStorageCoreLogger(storageKey) ==
    [kind |-> "localStorage", id |-> 0, storageKey |-> storageKey, maxStored |-> DefaultMaxStored]
CustomCoreLogger(id) == [kind |-> "custom", id |-> id, storageKey |-> "", maxStored |-> 0]
\* a caller's sink that also implements getLogs and addEntry (IAdvancedLogger)
AdvancedCoreLogger(id) == [kind |-> "advanced", id |-> id, storageKey |-> "", maxStored |-> 0]

\* What varies from one log call to the next without being program state:
\* which of the caller's own sinks throw, and the source that the stack
\* inspection of determineSource comes up with, and which of the optional
\* methods info, debug and trace the host's console has.
Env(failing, derived, console) == [failing |-> failing, derived |-> derived, console |-> console]

\* a console with every method, as browsers and Node provide
FullConsole == {"info", "debug", "trace"}

\* The storage collaborator fails by mode: "quota" makes setItem throw,
\* "blocked" makes getItem, setItem and removeItem throw.
GetItemThrows(fault) == fault = "blocked"
SetItemThrows(fault) == fault \in {"quota", "blocked"}
RemoveItemThrows(fault) == fault = "blocked"

\* the console methods ConsoleCoreLogger.log calls for the level, in order
levelCalls(level, console) ==
    CASE level = "error" -> <<"error">>
      [] level = "warn" -> <<"warn">>
      [] level = "success" -> <<"log">>
      [] level = "info" -> (IF "info" \in console THEN <<"info">> ELSE << >>) \o <<"log">>
      [] level = "debug" -> IF "debug" \in console THEN <<"debug">> ELSE <<"log">>
      [] level = "trace" -> IF "trace" \in console THEN <<"trace">> ELSE <<"log">>
      [] OTHER -> <<"log">>

\* ConsoleCoreLogger.log printing the source line even when no source is given
consoleLogAlwaysPrintsSource(level, messageOrEvent, data, source, console) ==
    LET threw == Truthy(data) /\ isCyclic(data, {}) IN
    [threw |-> threw,
     printed |-> IF threw THEN << >> ELSE levelCalls(level, console) \o <<"log">>]

\* ConsoleCoreLogger.log: nothing is caught, so JSON.stringify(data) throwing
\* escapes before anything is printed; `printed` are the console methods called
consoleLog(level, messageOrEvent, data, source, console) ==
    LET threw == Truthy(data) /\ isCyclic(data, {}) IN
    [threw |-> threw,
     printed |-> IF threw THEN << >>
                 ELSE levelCalls(level, console)
                        \o (IF Truthy(source) THEN <<"log">> ELSE << >>)]

\* the `entry` of LocalStorageCoreLogger.log
storageEntry(level, messageOrEvent, data, source, time) ==
    LogEntry(time, level,
             IF messageOrEvent.k = "text" THEN messageOrEvent.text
             ELSE messageOrEvent.type \o " event",
             data, source)

\* the body of LocalStorageCoreLogger.log, `serialized` being what
\* `data ? this.safeSerialize(data) : undefined` does: whether an exception
\* is thrown in it, and the storage it leaves
storageWrite(core, storage, fault, entry, serialized) ==
    LET raw == storage[core.storageKey]
        failed == \/ GetItemThrows(fault)
                  \/ raw = Unparsable
                  \/ serialized.threw
                  \/ SetItemThrows(fault)
        arr == IF raw = Null THEN << >> ELSE raw.v
        trimmed == slice(Append(arr, SavedEntry([entry EXCEPT !.data = serialized.out])),
                         0 - core.maxStored)
    IN  [threw |-> failed,
         storage |-> IF failed THEN storage
                     ELSE [storage EXCEPT ![core.storageKey] = JsonText(trimmed)]]

\* LocalStorageCoreLogger.log without its try/catch: a storage failure escapes
localStorageLogNoCatch(core, storage, fault, level, messageOrEvent, data, source, time) ==
    storageWrite(core, storage, fault, storageEntry(level, messageOrEvent, data, source, time),
                 trySerializeData(data))

\* LocalStorageCoreLogger.log: the whole body sits in one try/catch
localStorageLog(core, storage, fault, level, messageOrEvent, data, source, time) ==
    [storageWrite(core, storage, fault, storageEntry(level, messageOrEvent, data, source, time),
                  trySerializeData(data))
        EXCEPT !.threw = FALSE]

\* core.log(...) for any registered sink
coreLog(core, storage, fault, level, messageOrEvent, data, source, time, env) ==
    CASE core.kind = "console" ->
            [threw |-> consoleLog(level, messageOrEvent, data, source, env.console).threw,
             storage |-> storage]
      [] core.kind = "localStorage" ->
            localStorageLog(core, storage, fault, level, messageOrEvent, data, source, time)
      [] OTHER ->
            [threw |-> core.id \in env.failing, storage |-> storage]

\* the console methods a sink's log invokes: none but the console sink prints
corePrinted(core, level, messageOrEvent, data, source, env) ==
    IF core.kind = "console"
    THEN consoleLog(level, messageOrEvent, data, source, env.console).printed
    ELSE << >>

-----------------------------------------------------------------------------
(* Observation of a public call: which operation ran, whether it returned  *)
(* or threw to its caller, and the calls it made on the buffer and on the  *)
(* registered sinks, in order.                                             *)

\* ILoggingConfigurationOptions; an omitted option is Undefined, omitted
\* customCoreLoggers is the empty list
Options(name, max, console, storage, customs) ==
    [applicationName |-> name, maxLogs |-> max, enableConsoleCore |-> console,
     enableLocalStorageCore |-> storage, customCoreLoggers |-> customs]
NoOptions == Options(Undefined, Undefined, Undefined, Undefined, << >>)

\* `options` is the argument of initialize (NoOptions for every other
\* operation), `input` the <<level, messageOrEvent, data, source>> of a log
\* call (empty for every other operation), `fault` the storage failure mode
\* in effect during the call, `before` the number of records the buffer held
\* when the call began, `result` what a query returned (empty otherwise)
Call(op, outcome, trace) ==
    [op |-> op, options |-> NoOptions, input |-> << >>, fault |-> storageFault,
     before |-> IF inMemoryLogger = Null THEN 0 ELSE Len(inMemoryLogger.logs),
     outcome |-> outcome, trace |-> trace, result |-> << >>]
NoCall == [op |-> "none", options |-> NoOptions, input |-> << >>, fault |-> "none",
           before |-> 0, outcome |-> "returned", trace |-> << >>, result |-> << >>]

-----------------------------------------------------------------------------
(* The buffer on its own, driven as tests/InMemoryCoreLogger.test.ts       *)
(* drives it: constructed with some capacity, then any interleaving of     *)
(* setMaxLogs, log, addEntry and clearLogs.                                *)

Capacities == 0..MaxCap
BufferLevels == {"info", "error"}
BufferData == {Undefined, Ref(2)}
\* an entry as hydration hands it to addEntry: parsed from storage, written at time 0
RestoredEntry == LogEntry(0, "warn", "restored", Obj(<< <<"k", Str("v")>> >>), Undefined)

\* the form in which addEntry stores an entry
StoredForm(entry) ==
    [entry EXCEPT !.data = IF Truthy(entry.data) THEN safeSerialize(entry.data) ELSE Undefined]

BufferInit ==
    /\ instance = FALSE
    /\ applicationName = DefaultApplicationName
    /\ maxLogs = DefaultMaxLogs
    /\ activeCoreLoggers = << >>
    /\ inMemoryLogger \in {NewInMemoryCoreLogger(n) : n \in Capacities \cup {DefaultMaxLogs}}
    /\ localStorage = [key \in StorageKeys |-> Null]
    /\ storageFault = "none"
    /\ now = 1
    /\ inserted = << >>
    /\ capacityFixed = TRUE
    /\ lastCall = NoCall

BufferSetMaxLogs ==
    \E n \in Capacities :
        /\ inMemoryLogger' = setMaxLogs(inMemoryLogger, n)
        /\ capacityFixed' = IF inserted = << >> THEN TRUE
                            ELSE capacityFixed /\ n = inMemoryLogger.maxLogs
        /\ lastCall' = Call("setMaxLogs", "returned", << >>)
        /\ UNCHANGED <<serviceVars, now, inserted>>

BufferLog ==
    \E level \in BufferLevels, data \in BufferData :
        /\ now <= MaxTime
        /\ inMemoryLogger' = inMemoryLog(inMemoryLogger, level, Text("m"), data, Str("Src"), now)
        /\ inserted' = Append(inserted, LogEntry(now, level, extractMessage(Text("m")),
                                                 extractEventData(Text("m"), data), Str("Src")))
        /\ now' = now + 1
        /\ lastCall' = Call("log", "returned", << >>)
        /\ UNCHANGED <<serviceVars, capacityFixed>>

BufferAddEntry ==
    /\ now <= MaxTime
    /\ inMemoryLogger' = addEntry(inMemoryLogger, RestoredEntry)
    /\ inserted' = Append(inserted, RestoredEntry)
    /\ now' = now + 1
    /\ lastCall' = Call("addEntry", "returned", << >>)
    /\ UNCHANGED <<serviceVars, capacityFixed>>

BufferClearLogs ==
    /\ inMemoryLogger' = clearLogs(inMemoryLogger)
    /\ inserted' = << >>
    /\ capacityFixed' = TRUE
    /\ lastCall' = Call("clearLogs", "returned", << >>)
    /\ UNCHANGED <<serviceVars, now>>

BufferNext == BufferSetMaxLogs \/ BufferLog \/ BufferAddEntry \/ BufferClearLogs

BufferSpec == BufferInit /\ [][BufferNext]_vars

-----------------------------------------------------------------------------
(* Claims about the buffer, checked under BufferSpec.                      *)

\* C1: after any insertion (log or addEntry) the buffer holds at most maxLogs
\* records, for every capacity >= 0 and every interleaving of setMaxLogs,
\* insertions and clearLogs.
C1_LengthAtMostMaxLogs ==
    lastCall.op \in {"log", "addEntry"} =>
        Len(inMemoryLogger.logs) <= inMemoryLogger.maxLogs

\* the last n elements of a sequence
LastN(seq, n) == SubSeq(seq, Len(seq) - n + 1, Len(seq))

\* C2: at a fixed capacity N >= 1, after k > N insertions into an initially
\* empty buffer, getLogs() is exactly the last N inserted records, oldest first.
C2_KeepsNewestInOrder ==
    (capacityFixed /\ inMemoryLogger.maxLogs >= 1 /\ Len(inserted) > inMemoryLogger.maxLogs) =>
        getLogs(inMemoryLogger, NoLevel)
            = LastN([i \in 1..Len(inserted) |-> StoredForm(inserted[i])], inMemoryLogger.maxLogs)

\* C2 witness: capacity 2 never changed, four records inserted, two evicted
C2_Witness ==
    /\ capacityFixed
    /\ inMemoryLogger.maxLogs = 2
    /\ Len(inserted) = 4
    /\ Len(inMemoryLogger.logs) = 2
    /\ inMemoryLogger.logs[2].timestamp = 4

\* C12: after the capacity was lowered to n with 1 <= n < current length, the
\* first insertion leaves exactly n records: the inserted one last, preceded
\* by the n-1 most recent earlier records in their original order.
C12_FirstInsertionAfterLowering ==
    [][(/\ lastCall'.op \in {"log", "addEntry"}
        /\ inMemoryLogger.maxLogs >= 1
        /\ inMemoryLogger.maxLogs < Len(inMemoryLogger.logs))
       => inMemoryLogger'.logs
            = LastN(inMemoryLogger.logs, inMemoryLogger.maxLogs - 1)
                \o <<StoredForm(inserted'[Len(inserted')])>>]_vars

\* C12 witness: an insertion that began with three records in a buffer whose
\* capacity had been lowered to two, and left two
C12_Witness ==
    /\ lastCall.op \in {"log", "addEntry"}
    /\ lastCall.before = 3
    /\ inMemoryLogger.maxLogs = 2
    /\ Len(inMemoryLogger.logs) = 2
    /\ inMemoryLogger.logs[2] = StoredForm(inserted[Len(inserted)])

-----------------------------------------------------------------------------
(* LoggingService.  Its operations are functions of the service state      *)
(*   [instance, applicationName, maxLogs, activeCoreLoggers,               *)
(*    inMemoryLogger, localStorage]                                        *)
(* because initialize and getInstance call each other.                     *)

Service == [instance |-> instance, applicationName |-> applicationName, maxLogs |-> maxLogs,
            activeCoreLoggers |-> activeCoreLoggers, inMemoryLogger |-> inMemoryLogger,
            localStorage |-> localStorage]

\* `a ?? b`
Coalesce(a, b) == IF a.t \in {"undefined", "null"} THEN b ELSE a

\* setCoreLogger without the `includes` test: the sink is pushed every time
setCoreLoggerAlways(cores, core) == Append(cores, core)

\* LoggingService.setCoreLogger, on the list
setCoreLogger(cores, core) ==
    IF \E i \in 1..Len(cores) : cores[i] = core THEN cores ELSE Append(cores, core)

RECURSIVE setCoreLoggers(_, _, _)
\* the loop registering options.customCoreLoggers, skipping the canonical store
setCoreLoggers(cores, customs, inMemory) ==
    IF customs = << >> THEN cores
    ELSE setCoreLoggers(IF Head(customs).kind = "advanced" /\ Head(customs).id = inMemory.id
                        THEN cores
                        ELSE setCoreLogger(cores, Head(customs)),
                        Tail(customs), inMemory)

RECURSIVE addEntries(_, _)
\* the loop `for (const log of parsedLogs) inMemory.addEntry({...log, timestamp: new Date(...)})`
addEntries(logger, parsedLogs) ==
    IF parsedLogs = << >> THEN logger
    ELSE addEntries(addEntry(logger, [Head(parsedLogs) EXCEPT !.timestamp = NewDate(@)]),
                    Tail(parsedLogs))

\* the hydration block of initialize: any failure inside is caught and ignored
hydrate(logger, storage, fault, name) ==
    LET stored == storage[StorageKey(name)] IN
    IF GetItemThrows(fault) \/ stored = Null \/ stored = Unparsable
    THEN logger
    ELSE addEntries(logger, stored.v)

\* initialize without its reset: the sinks registered earlier stay registered
keepCoreLoggers(cores) == cores

\* `LoggingService.activeCoreLoggers = []`
resetCoreLoggers(cores) == << >>

\* an omitted maxLogs falling back to the default: `options?.maxLogs ?? 1000`
configuredMaxLogsOrDefault(current, options) == Coalesce(options.maxLogs, Num(DefaultMaxLogs)).v

\* `if (options?.maxLogs !== undefined) instance.maxLogs = options.maxLogs`
configuredMaxLogs(current, options) ==
    IF options.maxLogs # Undefined THEN options.maxLogs.v ELSE current

\* the end of initialize: the canonical store, hydrated, is kept and the
\* caller's sinks are registered after the built-in ones, `cores`
initialized(s, hydrated, cores, options) ==
    [s EXCEPT !.inMemoryLogger = hydrated,
              !.activeCoreLoggers = setCoreLoggers(cores, options.customCoreLoggers, hydrated)]

\* the body of LoggingService.initialize once the instance exists
initializeBody(s, fault, options) ==
    LET name == IF Truthy(options.applicationName)
                THEN options.applicationName.v ELSE s.applicationName
        max == configuredMaxLogs(s.maxLogs, options)
        advanced == SelectSeq(options.customCoreLoggers, LAMBDA c : c.kind = "advanced")
        inMemory ==
            IF s.inMemoryLogger # Null
            THEN IF options.maxLogs # Undefined
                 THEN setMaxLogs(s.inMemoryLogger, options.maxLogs.v)
                 ELSE s.inMemoryLogger
            ELSE IF advanced # << >>
            THEN [NewInMemoryCoreLogger(DefaultMaxLogs) EXCEPT !.id = Head(advanced).id]
            ELSE NewInMemoryCoreLogger(Coalesce(options.maxLogs, Num(s.maxLogs)).v)
        enableConsole == Coalesce(options.enableConsoleCore, Bool(TRUE)).v
        enableLocalStorage == Coalesce(options.enableLocalStorageCore, Bool(TRUE)).v
        reset == resetCoreLoggers(s.activeCoreLoggers)
        withConsole == IF enableConsole THEN setCoreLogger(reset, NewConsoleCoreLogger) ELSE reset
        withStorage == IF enableLocalStorage
                       THEN setCoreLogger(withConsole, NewLocalStorageCoreLogger(StorageKey(name)))
                       ELSE withConsole
    IN  initialized([s EXCEPT !.applicationName = name, !.maxLogs = max],
                    hydrate(inMemory, s.localStorage, fault, name),
                    withStorage, options)

\* getInstance running initialize() on every call, not only on the first
getInstanceAlwaysInitializes(s, fault) ==
    IF s.instance THEN initializeBody(s, fault, NoOptions)
    ELSE initializeBody([s EXCEPT !.instance = TRUE,
                                  !.applicationName = DefaultApplicationName,
                                  !.maxLogs = DefaultMaxLogs,
                                  !.inMemoryLogger = Null],
                        fault, NoOptions)

\* LoggingService.getInstance: the first call constructs the singleton and
\* runs initialize() with no options
getInstance(s, fault) ==
    IF s.instance THEN s
    ELSE initializeBody([s EXCEPT !.instance = TRUE,
                                  !.applicationName = DefaultApplicationName,
                                  !.maxLogs = DefaultMaxLogs,
                                  !.inMemoryLogger = Null],
                        fault, NoOptions)

\* LoggingService.initialize
initialize(s, fault, options) == initializeBody(getInstance(s, fault), fault, options)

\* LoggingService.determineSource: the stack decides
determineSource(env) == env.derived

\* one call made by broadcast: on the canonical buffer or on a registered sink
InMemoryTarget == [kind |-> "inMemory", id |-> 0, storageKey |-> "", maxStored |-> 0]
\* `printed` are the console methods the call invoked (the console sink only)
Invocation(core, level, messageOrEvent, data, source, threw) ==
    [core |-> core, level |-> level, messageOrEvent |-> messageOrEvent, data |-> data,
     source |-> source, threw |-> threw, printed |-> << >>]

RECURSIVE broadcastLoopNoCatch(_, _, _, _, _, _, _, _, _)
\* the loop without the try/catch around core.log: the first sink that
\* throws ends the loop and the exception reaches the caller
broadcastLoopNoCatch(cores, storage, fault, level, messageOrEvent, data, source, time, env) ==
    IF cores = << >>
    THEN [storage |-> storage, trace |-> << >>, outcome |-> "returned"]
    ELSE LET r == coreLog(Head(cores), storage, fault, level, messageOrEvent, data, source, time, env)
             rest == IF r.threw
                     THEN [storage |-> r.storage, trace |-> << >>, outcome |-> "threw"]
                     ELSE broadcastLoopNoCatch(Tail(cores), r.storage, fault, level,
                                               messageOrEvent, data, source, time, env)
         IN  [storage |-> rest.storage,
              trace |-> <<[Invocation(Head(cores), level, messageOrEvent, data, source, r.threw)
                             EXCEPT !.printed = corePrinted(Head(cores), level, messageOrEvent,
                                                            data, source, env)]>>
                        \o rest.trace,
              outcome |-> rest.outcome]

RECURSIVE broadcastLoopNewestFirst(_, _, _, _, _, _, _, _, _)
\* the loop walking activeCoreLoggers from the sink registered last to the
\* one registered first
broadcastLoopNewestFirst(cores, storage, fault, level, messageOrEvent, data, source, time, env) ==
    IF cores = << >>
    THEN [storage |-> storage, trace |-> << >>, outcome |-> "returned"]
    ELSE LET last == cores[Len(cores)]
             r == coreLog(last, storage, fault, level, messageOrEvent, data, source, time, env)
             rest == broadcastLoopNewestFirst(SubSeq(cores, 1, Len(cores) - 1), r.storage, fault,
                                              level, messageOrEvent, data, source, time, env)
         IN  [storage |-> rest.storage,
              trace |-> <<[Invocation(last, level, messageOrEvent, data, source, r.threw)
                             EXCEPT !.printed = corePrinted(last, level, messageOrEvent,
                                                            data, source, env)]>>
                        \o rest.trace,
              outcome |-> rest.outcome]

RECURSIVE broadcastLoop(_, _, _, _, _, _, _, _, _)
RECURSIVE loopAfter(_, _, _, _, _, _, _, _, _)

\* the invocation of one sink followed by what the rest of the loop did
loopJoined(invocation, rest) == [rest EXCEPT !.trace = <<invocation>> \o @]

\* the loop over activeCoreLoggers: each core.log sits in its own try/catch
broadcastLoop(cores, storage, fault, level, messageOrEvent, data, source, time, env) ==
    IF cores = << >>
    THEN [storage |-> storage, trace |-> << >>, outcome |-> "returned"]
    ELSE loopAfter(cores,
                   coreLog(Head(cores), storage, fault, level, messageOrEvent, data, source,
                           time, env),
                   fault, level, messageOrEvent, data, source, time, env)

\* the loop once its first sink's log did `r`: the exception, if any, was
\* caught, and the loop goes on with the other sinks
loopAfter(cores, r, fault, level, messageOrEvent, data, source, time, env) ==
    loopJoined([Invocation(Head(cores), level, messageOrEvent, data, source, r.threw)
                   EXCEPT !.printed = corePrinted(Head(cores), level, messageOrEvent,
                                                  data, source, env)],
               broadcastLoop(Tail(cores), r.storage, fault, level, messageOrEvent,
                             data, source, time, env))

\* broadcast writing to the canonical buffer after the sinks instead of before
broadcastSinksFirst(s, fault, level, messageOrEvent, data, source, time, env) ==
    LET resolvedSource == IF Truthy(source) THEN source ELSE determineSource(env)
        loop == broadcastLoop(s.activeCoreLoggers, s.localStorage, fault, level, messageOrEvent,
                              data, source, time, env)
        written == s.inMemoryLogger # Null
        inMemory == IF written
                    THEN inMemoryLog(s.inMemoryLogger, level, messageOrEvent, data,
                                     resolvedSource, time)
                    ELSE s.inMemoryLogger
        last == IF written
                THEN <<Invocation(InMemoryTarget, level, messageOrEvent, data, resolvedSource,
                                    inMemoryLogThrows(messageOrEvent, data))>>
                ELSE << >>
    IN  [state |-> [s EXCEPT !.inMemoryLogger = inMemory, !.localStorage = loop.storage],
         trace |-> loop.trace \o last,
         outcome |-> loop.outcome]

\* broadcast handing the resolved source to every sink: `core.log(..., resolvedSource)`
broadcastResolvedSourceToSinks(s, fault, level, messageOrEvent, data, source, time, env) ==
    LET resolvedSource == IF Truthy(source) THEN source ELSE determineSource(env)
        written == s.inMemoryLogger # Null
        inMemory == IF written
                    THEN inMemoryLog(s.inMemoryLogger, level, messageOrEvent, data,
                                     resolvedSource, time)
                    ELSE s.inMemoryLogger
        first == IF written
                 THEN <<Invocation(InMemoryTarget, level, messageOrEvent, data, resolvedSource,
                                    inMemoryLogThrows(messageOrEvent, data))>>
                 ELSE << >>
        loop == broadcastLoop(s.activeCoreLoggers, s.localStorage, fault, level, messageOrEvent,
                              data, resolvedSource, time, env)
    IN  [state |-> [s EXCEPT !.inMemoryLogger = inMemory, !.localStorage = loop.storage],
         trace |-> first \o loop.trace,
         outcome |-> loop.outcome]

\* broadcast handing the caller's source, resolved or not, to the canonical
\* buffer: `this.inMemoryLogger.log(level, messageOrEvent, data, source)`
broadcastRawSourceToBuffer(s, fault, level, messageOrEvent, data, source, time, env) ==
    LET written == s.inMemoryLogger # Null
        inMemory == IF written
                    THEN inMemoryLog(s.inMemoryLogger, level, messageOrEvent, data, source, time)
                    ELSE s.inMemoryLogger
        first == IF written
                 THEN <<Invocation(InMemoryTarget, level, messageOrEvent, data, source,
                                    inMemoryLogThrows(messageOrEvent, data))>>
                 ELSE << >>
        loop == broadcastLoop(s.activeCoreLoggers, s.localStorage, fault, level, messageOrEvent,
                              data, source, time, env)
    IN  [state |-> [s EXCEPT !.inMemoryLogger = inMemory, !.localStorage = loop.storage],
         trace |-> first \o loop.trace,
         outcome |-> loop.outcome]

\* what a broadcast leaves: `s` after the write to the canonical buffer,
\* whose invocation is `first`, and what the loop over the sinks did
broadcastDone(s, first, loop) ==
    [state |-> [s EXCEPT !.localStorage = loop.storage],
     trace |-> first \o loop.trace,
     outcome |-> loop.outcome]

\* LoggingService.broadcast
broadcast(s, fault, level, messageOrEvent, data, source, time, env) ==
    LET resolvedSource == IF Truthy(source) THEN source ELSE determineSource(env)
        written == s.inMemoryLogger # Null
        inMemory == IF written
                    THEN inMemoryLog(s.inMemoryLogger, level, messageOrEvent, data,
                                     resolvedSource, time)
                    ELSE s.inMemoryLogger
        first == IF written
                 THEN <<Invocation(InMemoryTarget, level, messageOrEvent, data, resolvedSource,
                                    inMemoryLogThrows(messageOrEvent, data))>>
                 ELSE << >>
    IN  broadcastDone([s EXCEPT !.inMemoryLogger = inMemory], first,
                      broadcastLoop(s.activeCoreLoggers, s.localStorage, fault, level,
                                    messageOrEvent, data, source, time, env))

\* the level methods; `warning` calls `warn`
LevelMethods == {"trace", "debug", "info", "success", "warn", "warning", "error", "fatal"}
methodLevel(method) == IF method = "warning" THEN "warn" ELSE method

\* LoggingService.error / fatal / warn / warning / info / success / debug / trace
levelMethod(s, fault, method, messageOrEvent, data, source, time, env) ==
    broadcast(s, fault, methodLevel(method), messageOrEvent, data, source, time, env)

\* LoggingService.getLogs(level?)
serviceGetLogs(s, level) ==
    IF s.inMemoryLogger # Null THEN getLogs(s.inMemoryLogger, level) ELSE << >>

\* LoggingService.safeSerialize: JSON.parse(JSON.stringify(value, replacer)),
\* and String(value) when that throws, as it does when JSON.stringify yields
\* undefined.  The replacer's branches concern Error, Date, RegExp, Map and
\* Set instances and objects met twice; the data of a stored record, being
\* the output of the sink's serializer, holds none.
serviceSafeSerialize(value) ==
    IF jsonValue(value) = Undefined THEN Str(StringOf(value).out) ELSE jsonValue(value)

\* String(level).toUpperCase()
toUpperCase(level) ==
    CASE level = "trace" -> "TRACE" [] level = "debug" -> "DEBUG" [] level = "info" -> "INFO"
      [] level = "success" -> "SUCCESS" [] level = "warn" -> "WARN"
      [] level = "error" -> "ERROR" [] level = "fatal" -> "FATAL" [] OTHER -> level

\* an entry rendered with its source part whenever the record has a source,
\* the literal "unknown" included
renderEntryWithUnknown(log) ==
    [timestamp |-> toISOString(log.timestamp),
     level |-> toUpperCase(log.level),
     message |-> log.message,
     data |-> IF Truthy(log.data) THEN <<JsonText(jsonValue(serviceSafeSerialize(log.data)))>>
              ELSE << >>,
     source |-> IF Truthy(log.source) THEN <<log.source.v>> ELSE << >>]

\* one entry of getLogsAsString: "[<timestamp>] [<LEVEL>] <message><data><source>";
\* `data` holds the JSON text after " | Data: " and `source` the text after
\* " | Source: ", each empty when the part is not rendered
renderEntry(log) ==
    [timestamp |-> toISOString(log.timestamp),
     level |-> toUpperCase(log.level),
     message |-> log.message,
     data |-> IF Truthy(log.data) THEN <<JsonText(jsonValue(serviceSafeSerialize(log.data)))>>
              ELSE << >>,
     source |-> IF Truthy(log.source) /\ log.source # Str("unknown") THEN <<log.source.v>>
                ELSE << >>]

\* LoggingService.getLogsAsString(level?): the entries that join("\n") puts together
getLogsAsString(s, level) ==
    LET logs == serviceGetLogs(s, level) IN
    [i \in 1..Len(logs) |-> renderEntry(logs[i])]

\* getConfiguration counting the info records only
getConfigurationCountsInfoOnly(s) ==
    [applicationName |-> s.applicationName,
     enableConsoleCore |-> \E i \in 1..Len(s.activeCoreLoggers) :
                              s.activeCoreLoggers[i].kind = "console",
     enableLocalStorageCore |-> \E i \in 1..Len(s.activeCoreLoggers) :
                                   s.activeCoreLoggers[i].kind = "localStorage",
     maxLogs |-> s.maxLogs,
     totalLogs |-> IF s.inMemoryLogger # Null THEN Len(getLogs(s.inMemoryLogger, "info")) ELSE 0]

\* LoggingService.getConfiguration
getConfiguration(s) ==
    [applicationName |-> s.applicationName,
     enableConsoleCore |-> \E i \in 1..Len(s.activeCoreLoggers) :
                              s.activeCoreLoggers[i].kind = "console",
     enableLocalStorageCore |-> \E i \in 1..Len(s.activeCoreLoggers) :
                                   s.activeCoreLoggers[i].kind = "localStorage",
     maxLogs |-> s.maxLogs,
     totalLogs |-> IF s.inMemoryLogger # Null THEN Len(getLogs(s.inMemoryLogger, NoLevel)) ELSE 0]

\* clearLogs forgetting the persisted key: only the buffer is cleared
serviceClearLogsKeepsStorage(s, fault) ==
    [state |-> [s EXCEPT !.inMemoryLogger = IF s.inMemoryLogger # Null
                                            THEN clearLogs(s.inMemoryLogger)
                                            ELSE s.inMemoryLogger],
     outcome |-> "returned"]

\* clearLogs removing the key of the default application name, whatever
\* name initialize configured
serviceClearLogsDefaultKey(s, fault) ==
    LET cleared == IF s.inMemoryLogger # Null THEN clearLogs(s.inMemoryLogger)
                   ELSE s.inMemoryLogger
    IN  IF RemoveItemThrows(fault)
        THEN [state |-> [s EXCEPT !.inMemoryLogger = cleared], outcome |-> "threw"]
        ELSE [state |-> [s EXCEPT !.inMemoryLogger = cleared,
                                  !.localStorage[StorageKey(DefaultApplicationName)] = Null],
              outcome |-> "returned"]

\* clearLogs removing the persisted key only while a storage sink is registered
serviceClearLogsWhenSinkRegistered(s, fault) ==
    LET cleared == IF s.inMemoryLogger # Null THEN clearLogs(s.inMemoryLogger)
                   ELSE s.inMemoryLogger
        registered == \E i \in 1..Len(s.activeCoreLoggers) :
                         s.activeCoreLoggers[i].kind = "localStorage"
    IN  IF ~registered
        THEN [state |-> [s EXCEPT !.inMemoryLogger = cleared], outcome |-> "returned"]
        ELSE IF RemoveItemThrows(fault)
        THEN [state |-> [s EXCEPT !.inMemoryLogger = cleared], outcome |-> "threw"]
        ELSE [state |-> [s EXCEPT !.inMemoryLogger = cleared,
                                  !.localStorage[StorageKey(s.applicationName)] = Null],
              outcome |-> "returned"]

\* LoggingService.clearLogs: removeItem is called outside any try/catch
serviceClearLogs(s, fault) ==
    LET cleared == IF s.inMemoryLogger # Null THEN clearLogs(s.inMemoryLogger)
                   ELSE s.inMemoryLogger
    IN  IF RemoveItemThrows(fault)
        THEN [state |-> [s EXCEPT !.inMemoryLogger = cleared], outcome |-> "threw"]
        ELSE [state |-> [s EXCEPT !.inMemoryLogger = cleared,
                                  !.localStorage[StorageKey(s.applicationName)] = Null],
              outcome |-> "returned"]

-----------------------------------------------------------------------------
(* The service as a program: the module's class initialisers, then any     *)
(* sequence of public calls.  The operations take their inputs from the    *)
(* sets a specification hands them.                                        *)

MaxCalls == 2       \* log calls made through the service
MaxLen == 3         \* longest buffer / saved array explored

StorageFaults == {"none", "quota", "blocked"}

\* a record saved by an earlier run of the program
OldEntry(i) == SavedEntry(LogEntry(0 - i, "warn", "old", Undefined, Str("Old.run")))
InitialItems == {Null, Unparsable} \cup {JsonText([i \in 1..n |-> OldEntry(i)]) : n \in 1..MaxStored}

\* the state the class initialisers leave, before the first getInstance
ClassLoaded ==
    /\ instance = FALSE
    /\ applicationName = DefaultApplicationName
    /\ maxLogs = DefaultMaxLogs
    /\ activeCoreLoggers = << >>
    /\ inMemoryLogger = Null
    /\ now = 1
    /\ inserted = << >>
    /\ capacityFixed = TRUE
    /\ lastCall = NoCall

\* the service state after a call
Becomes(s) ==
    /\ instance' = s.instance
    /\ applicationName' = s.applicationName
    /\ maxLogs' = s.maxLogs
    /\ activeCoreLoggers' = s.activeCoreLoggers
    /\ inMemoryLogger' = s.inMemoryLogger
    /\ localStorage' = s.localStorage

WithinLen(s) ==
    /\ Len(s.inMemoryLogger.logs) <= MaxLen
    /\ \A key \in StorageKeys :
          s.localStorage[key].t = "json" => Len(s.localStorage[key].v) <= MaxLen

\* the service state after a call, kept within the bound on lengths
BecomesWithin(s) == WithinLen(s) /\ Becomes(s)

GetInstance ==
    /\ BecomesWithin(getInstance(Service, storageFault))
    /\ lastCall' = Call("getInstance", "returned", << >>)
    /\ UNCHANGED <<storageFault, now, inserted, capacityFixed>>

InitializeWith(optionInputs) ==
    \E options \in optionInputs :
        /\ BecomesWithin(initialize(Service, storageFault, options))
        /\ lastCall' = [Call("initialize", "returned", << >>) EXCEPT !.options = options]
        /\ UNCHANGED <<storageFault, now, inserted, capacityFixed>>

SetCoreLoggerWith(ids) ==
    \E id \in ids :
        /\ activeCoreLoggers' = setCoreLogger(activeCoreLoggers, CustomCoreLogger(id))
        /\ lastCall' = Call("setCoreLogger", "returned", << >>)
        /\ UNCHANGED <<instance, applicationName, maxLogs, inMemoryLogger, localStorage,
                       storageFault, now, inserted, capacityFixed>>

\* the caller's own sinks that are registered
RegisteredCustomIds ==
    {activeCoreLoggers[i].id : i \in {j \in 1..Len(activeCoreLoggers) :
                                         activeCoreLoggers[j].kind = "custom"}}

\* the service and the observation after a log call that did `r`
Logged(r, input) ==
    /\ WithinLen(r.state)
    /\ Becomes(r.state)
    /\ lastCall' = [Call("log", r.outcome, r.trace) EXCEPT !.input = input]

\* the level methods (error, fatal, warn, warning, info, success, debug,
\* trace): each is broadcast with its level.  logInputs are the
\* <<level, messageOrEvent, data, source>> of the calls.
LogWith(logInputs, derivedSources, mayThrow, consoles) ==
    /\ instance
    /\ now <= MaxCalls
    /\ \E input \in logInputs,
          failing \in SUBSET (RegisteredCustomIds \cap mayThrow),
          derived \in derivedSources,
          console \in consoles :
        Logged(broadcast(Service, storageFault, input[1], input[2], input[3], input[4],
                         now, Env(failing, derived, console)),
               input)
    /\ now' = now + 1
    /\ UNCHANGED <<storageFault, inserted, capacityFixed>>

\* the service and the observation after a clearLogs call that did `r`
Cleared(r) ==
    /\ Becomes(r.state)
    /\ lastCall' = Call("clearLogs", r.outcome, << >>)

ClearLogs ==
    /\ instance
    /\ Cleared(serviceClearLogs(Service, storageFault))
    /\ UNCHANGED <<storageFault, now, inserted, capacityFixed>>

\* the storage collaborator changes its failure mode
StorageFault ==
    /\ storageFault' \in StorageFaults \ {storageFault}
    /\ UNCHANGED <<instance, applicationName, maxLogs, activeCoreLoggers, inMemoryLogger,
                   localStorage, now, inserted, capacityFixed, lastCall>>

-----------------------------------------------------------------------------
(* Spec: configuration and retention.  Storage holds what earlier runs     *)
(* left; initialize is called with one setting at a time, as the           *)
(* configuration tests do, and with every combination of the sink          *)
(* switches.                                                               *)

ServiceCapacities == {1, 2}

OptionInputs ==
    {Options(Str("app2"), Undefined, Undefined, Undefined, << >>)}
    \cup {Options(Undefined, Num(n), Undefined, Undefined, << >>) : n \in ServiceCapacities}
    \cup { Options(Undefined, Undefined, console, storage, customs) :
             console \in {Undefined, Bool(TRUE), Bool(FALSE)},
             storage \in {Undefined, Bool(TRUE), Bool(FALSE)},
             customs \in {<< >>, <<CustomCoreLogger(1)>>} }

LogInputs ==
    { <<"info", Text("m"), Undefined, Undefined>>,
      <<"error", GenericEvent("click", Null), Ref(1), Str("Src")>> }

Init ==
    /\ ClassLoaded
    /\ localStorage \in {items \in [StorageKeys -> InitialItems] :
                            items[StorageKey("app2")] \in {Null, JsonText(<<OldEntry(1)>>)}}
    /\ storageFault = "none"

Initialize == InitializeWith(OptionInputs)
SetCoreLogger == SetCoreLoggerWith({1})
Log == LogWith(LogInputs, {Str("Caller.method")}, {}, {FullConsole})

Next == GetInstance \/ Initialize \/ SetCoreLogger \/ Log \/ ClearLogs

Spec == Init /\ [][Next]_vars

-----------------------------------------------------------------------------
(* Claims about configuration, checked under Spec.                         *)

RECURSIVE IsSubsequence(_, _)
\* every element of a occurs in b, in the same relative order
IsSubsequence(a, b) ==
    IF a = << >> THEN TRUE
    ELSE IF b = << >> THEN FALSE
    ELSE IF Head(a) = Head(b) THEN IsSubsequence(Tail(a), Tail(b))
    ELSE IsSubsequence(a, Tail(b))

\* what getLogs() returns now
BufferRecords == serviceGetLogs(Service, NoLevel)
\* the kinds of the registered sinks, in registration order
SinkKinds == [i \in 1..Len(activeCoreLoggers) |-> activeCoreLoggers[i].kind]

\* C3: initialize(options) preserves the canonical buffer's records: every
\* record getLogs() returned before the call is still returned after it, in
\* the same relative order, whatever storage holds and however full the
\* buffer is.
C3_InitializePreservesRecords ==
    [][lastCall'.op = "initialize" => IsSubsequence(BufferRecords, BufferRecords')]_vars

\* C4: initialize is idempotent: a second initialize with the same options,
\* right after the first, leaves buffer contents, sink kinds and order,
\* maxLogs and applicationName as the first call left them.
C4_InitializeIdempotent ==
    [][(/\ lastCall.op = "initialize"
        /\ lastCall'.op = "initialize"
        /\ lastCall'.options = lastCall.options)
       => <<BufferRecords, SinkKinds, maxLogs, applicationName>>'
            = <<BufferRecords, SinkKinds, maxLogs, applicationName>>]_vars

\* C11: initialize({maxLogs: n}) with n below the number of buffered records
\* leaves getLogs() unchanged; trimming waits for the next log call.
C11_LoweringLeavesRecords ==
    [][(/\ instance
        /\ lastCall'.op = "initialize"
        /\ lastCall'.options.maxLogs # Undefined
        /\ lastCall'.options.maxLogs.v < Len(BufferRecords))
       => BufferRecords' = BufferRecords]_vars

\* C13: clearLogs() leaves the canonical buffer empty and removes the key
\* "<applicationName>-logs" from storage; it changes neither maxLogs nor the
\* list of registered sinks.
C13_ClearLogsEmptiesBufferAndKey ==
    [][lastCall'.op = "clearLogs" =>
        /\ BufferRecords' = << >>
        /\ localStorage'[StorageKey(applicationName)] = Null
        /\ \A key \in StorageKeys \ {StorageKey(applicationName)} :
              localStorage'[key] = localStorage[key]
        /\ applicationName' = applicationName
        /\ maxLogs' = maxLogs
        /\ inMemoryLogger'.maxLogs = inMemoryLogger.maxLogs
        /\ activeCoreLoggers' = activeCoreLoggers]_vars

\* C13 witness: clearLogs ran on a buffer holding records, under a configured
\* name and capacity, with three sinks registered
C13_Witness ==
    /\ lastCall.op = "clearLogs"
    /\ lastCall.before >= 2
    /\ BufferRecords = << >>
    /\ applicationName = "app2"
    /\ localStorage[StorageKey("app2")] = Null
    /\ localStorage[StorageKey(DefaultApplicationName)] # Null
    /\ maxLogs = 2
    /\ SinkKinds = <<"console", "localStorage", "custom">>

\* the record hydration inserts for a saved record
Restored(saved) == StoredForm([saved EXCEPT !.timestamp = NewDate(@)])

\* C15: when the service is first brought up, by getInstance() or by
\* initialize(options), while storage holds k <= maxLogs records under
\* "<applicationName>-logs", the buffer afterwards holds exactly those k
\* records, each once, in stored order.
C15_BringUpLoadsStoredOnce ==
    [][(~instance /\ lastCall'.op \in {"getInstance", "initialize"}) =>
        LET stored == localStorage[StorageKey(applicationName')] IN
        (stored.t = "json" /\ Len(stored.v) <= maxLogs')
            => BufferRecords' = [i \in 1..Len(stored.v) |-> Restored(stored.v[i])]]_vars

\* C19: the first getInstance() constructs the service with the defaults
\* (console and storage sinks registered, maxLogs 1000, applicationName
\* "application"); every later getInstance() returns the same instance,
\* buffered records intact, without configuring again.
C19_GetInstanceConfiguresOnce ==
    [][lastCall'.op = "getInstance" =>
        IF instance
        THEN UNCHANGED <<instance, applicationName, maxLogs, activeCoreLoggers,
                         inMemoryLogger, localStorage>>
        ELSE /\ instance'
             /\ getConfiguration(Service)'.applicationName = "application"
             /\ getConfiguration(Service)'.maxLogs = 1000
             /\ inMemoryLogger'.maxLogs = 1000
             /\ SinkKinds' = <<"console", "localStorage">>
             /\ activeCoreLoggers'[2].storageKey = "application-logs"]_vars

\* C19 witness: a getInstance() call on a service that had been configured
\* with another name and capacity and held records
C19_Witness ==
    /\ lastCall.op = "getInstance"
    /\ lastCall.before >= 1
    /\ Len(BufferRecords) = lastCall.before
    /\ applicationName = "app2"
    /\ maxLogs = 2
    /\ SinkKinds = <<"custom">>

\* C5, as claimed: an option omitted from an initialize call keeps its
\* previously configured value, for each of applicationName, maxLogs,
\* enableConsoleCore and enableLocalStorageCore; a sink disabled earlier
\* stays disabled.
C5_OmittedOptionKeepsValue ==
    [][(instance /\ lastCall'.op = "initialize") =>
        LET options == lastCall'.options
            before == getConfiguration(Service)
            after == getConfiguration(Service)'
        IN  /\ options.applicationName = Undefined
                  => after.applicationName = before.applicationName
            /\ options.maxLogs = Undefined => after.maxLogs = before.maxLogs
            /\ options.enableConsoleCore = Undefined
                  => after.enableConsoleCore = before.enableConsoleCore
            /\ options.enableLocalStorageCore = Undefined
                  => after.enableLocalStorageCore = before.enableLocalStorageCore]_vars

\* C5, amended: an omitted applicationName or maxLogs keeps its previously
\* configured value (the buffer's capacity included); an omitted
\* enableConsoleCore or enableLocalStorageCore counts as true, so that sink
\* is registered after the call even when an earlier call disabled it.
C5_OmittedNameAndCapacityKept ==
    [][(instance /\ lastCall'.op = "initialize") =>
        LET options == lastCall'.options
            before == getConfiguration(Service)
            after == getConfiguration(Service)'
        IN  /\ options.applicationName = Undefined
                  => after.applicationName = before.applicationName
            /\ options.maxLogs = Undefined
                  => /\ after.maxLogs = before.maxLogs
                     /\ inMemoryLogger'.maxLogs = inMemoryLogger.maxLogs
            /\ options.enableConsoleCore = Undefined => after.enableConsoleCore
            /\ options.enableLocalStorageCore = Undefined => after.enableLocalStorageCore]_vars

\* C5 witness: an initialize call that omitted every option but the custom
\* sinks, made when the name and the capacity had been configured earlier
C5_Witness ==
    /\ lastCall.op = "initialize"
    /\ lastCall.options = Options(Undefined, Undefined, Undefined, Undefined, <<CustomCoreLogger(1)>>)
    /\ applicationName = "app2"
    /\ maxLogs = 2
    /\ inMemoryLogger.maxLogs = 2
    /\ SinkKinds = <<"console", "localStorage", "custom">>

-----------------------------------------------------------------------------
(* QuerySpec: getLogs as a function of the buffer.  The buffer holds any   *)
(* sequence of records of up to MaxLen, as log calls at those levels leave *)
(* it; getLogs is called with every level and with none.                   *)

QueryLevels == {"info", "warn", "error"}

\* the record the i-th log call of a run stores
QueryRecord(i, level) == StoredForm(LogEntry(i, level, "m", Undefined, Str("Src")))

QueryBuffers ==
    UNION {{[i \in 1..n |-> QueryRecord(i, levels[i])] : levels \in [1..n -> QueryLevels]}
           : n \in 0..MaxLen}

QueryInit ==
    /\ instance = FALSE
    /\ applicationName = DefaultApplicationName
    /\ maxLogs = DefaultMaxLogs
    /\ activeCoreLoggers = << >>
    /\ inMemoryLogger \in {[NewInMemoryCoreLogger(DefaultMaxLogs) EXCEPT !.logs = logs]
                               : logs \in QueryBuffers}
    /\ localStorage = [key \in StorageKeys |-> Null]
    /\ storageFault = "none"
    /\ now = 1
    /\ inserted = << >>
    /\ capacityFixed = TRUE
    /\ lastCall = NoCall

QueryGetLogs ==
    \E level \in LogLevel \cup {NoLevel} :
        /\ lastCall' = [Call("getLogs", "returned", << >>)
                           EXCEPT !.input = <<level>>,
                                  !.result = getLogs(inMemoryLogger, level)]
        /\ UNCHANGED <<serviceVars, inMemoryLogger, now, inserted, capacityFixed>>

QueryNext == QueryGetLogs

QuerySpec == QueryInit /\ [][QueryNext]_vars

\* C14: getLogs(level) returns exactly the buffered records of that level,
\* in buffer order; getLogs() without a level returns every buffered record
\* in buffer order.
C14_GetLogsFiltersByLevel ==
    lastCall.op = "getLogs" =>
        LET level == lastCall.input[1]
            result == lastCall.result
            logs == inMemoryLogger.logs
        IN  IF level = NoLevel
            THEN result = logs
            ELSE /\ IsSubsequence(result, logs)
                 /\ \A i \in 1..Len(result) : result[i].level = level
                 /\ Len(result) = Cardinality({i \in 1..Len(logs) : logs[i].level = level})

\* C14 witness: getLogs("error") on three records of which the first and the
\* last are errors
C14_Witness ==
    /\ lastCall.op = "getLogs"
    /\ lastCall.input = <<"error">>
    /\ Len(inMemoryLogger.logs) = 3
    /\ inMemoryLogger.logs[2].level = "warn"
    /\ Len(lastCall.result) = 2
    /\ lastCall.result[1].timestamp = 1
    /\ lastCall.result[2].timestamp = 3

-----------------------------------------------------------------------------
(* StorageSinkSpec: a LocalStorageCoreLogger on its own, constructed with  *)
(* some maxStored as tests/LocalStorageCoreLogger.test.ts constructs it,   *)
(* over a storage that holds what earlier runs left and that may fail.     *)

MaxStoredValues == (0..MaxCap) \cup {DefaultMaxStored}

SinkInputs ==
    { <<"info", Text("m"), Undefined, Undefined>>,
      <<"error", GenericEvent("click", Null), Ref(2), Str("Src")>> }

\* the sink under test
StorageSink == activeCoreLoggers[1]

SinkInit ==
    /\ instance = FALSE
    /\ applicationName = DefaultApplicationName
    /\ maxLogs = DefaultMaxLogs
    /\ activeCoreLoggers \in
          {<<[NewLocalStorageCoreLogger(StorageKey(DefaultApplicationName))
                 EXCEPT !.maxStored = n]>> : n \in MaxStoredValues}
    /\ inMemoryLogger = Null
    /\ localStorage \in {items \in [StorageKeys -> InitialItems] :
                            items[StorageKey("app2")] = Null}
    /\ storageFault = "none"
    /\ now = 1
    /\ inserted = << >>
    /\ capacityFixed = TRUE
    /\ lastCall = NoCall

\* LocalStorageCoreLogger.log called directly
SinkLog ==
    /\ now <= MaxTime
    /\ \E input \in SinkInputs :
        LET r == localStorageLog(StorageSink, localStorage, storageFault,
                                 input[1], input[2], input[3], input[4], now)
        IN  /\ localStorage' = r.storage
            /\ lastCall' = [Call("sinkLog", IF r.threw THEN "threw" ELSE "returned",
                                  <<Invocation(StorageSink, input[1], input[2], input[3],
                                               input[4], r.threw)>>)
                               EXCEPT !.input = input]
    /\ now' = now + 1
    /\ UNCHANGED <<instance, applicationName, maxLogs, activeCoreLoggers, inMemoryLogger,
                   storageFault, inserted, capacityFixed>>

SinkNext == SinkLog \/ StorageFault

StorageSinkSpec == SinkInit /\ [][SinkNext]_vars

\* the array saved under the sink's key: empty when there is no item
SavedArray(storage) ==
    IF storage[StorageSink.storageKey].t = "json" THEN storage[StorageSink.storageKey].v
    ELSE << >>

\* the smaller of two numbers
Min(a, b) == IF a < b THEN a ELSE b

\* C16: after every successful write by the storage sink, the array saved
\* under its key holds at most maxStored entries, and they are the most
\* recently written ones, oldest first, whatever the buffer's maxLogs is.
C16_SavedAtMostMaxStored ==
    [][(/\ lastCall'.op = "sinkLog"
        /\ now' = now + 1
        /\ ~GetItemThrows(storageFault)
        /\ ~SetItemThrows(storageFault)
        /\ localStorage[StorageSink.storageKey] # Unparsable)
       => LET old == SavedArray(localStorage)
              new == SavedArray(localStorage')
          IN  /\ Len(new) <= StorageSink.maxStored
              /\ Len(new) = Min(StorageSink.maxStored, Len(old) + 1)
              /\ Len(new) >= 1 =>
                    /\ new[Len(new)].timestamp = toISOString(now)
                    /\ new = LastN(Append(old, new[Len(new)]), Len(new))]_vars

-----------------------------------------------------------------------------
(* DispatchSpec: broadcast and failure isolation.  Sinks may throw, the    *)
(* storage collaborator may fail, the source may or may not be given.      *)

DispatchOptions ==
    { Options(Undefined, Undefined, console, storage, customs) :
        console \in {Undefined, Bool(FALSE)},
        storage \in {Undefined, Bool(FALSE)},
        customs \in {<< >>, <<CustomCoreLogger(2), CustomCoreLogger(1)>>} }

DispatchInputs ==
    { <<"info", Text("m"), Undefined, Undefined>>,
      <<"error", Text("m"), Ref(2), Str("Src")>>,
      <<"warn", GenericEvent("click", Null), Ref(1), Str("")>> }

DispatchInit ==
    /\ ClassLoaded
    /\ localStorage \in {items \in [StorageKeys -> {Null, Unparsable}] :
                            items[StorageKey("app2")] = Null}
    /\ storageFault = "none"

DispatchInitialize == InitializeWith(DispatchOptions)
DispatchSetCoreLogger == SetCoreLoggerWith({1})
DispatchLog == LogWith(DispatchInputs, {Str("unknown"), Str("Caller.method")}, {1, 2},
                       {FullConsole})

DispatchNext ==
    \/ GetInstance
    \/ DispatchInitialize
    \/ DispatchSetCoreLogger
    \/ DispatchLog
    \/ ClearLogs
    \/ StorageFault

DispatchSpec == DispatchInit /\ [][DispatchNext]_vars

-----------------------------------------------------------------------------
(* Claims about broadcast, checked under DispatchSpec.                     *)

\* the calls the last log call made on the registered sinks, in order
SinkCalls == SelectSeq(lastCall.trace, LAMBDA e : e.core.kind # "inMemory")
\* those made on the storage sink
StorageSinkCalls == SelectSeq(lastCall.trace, LAMBDA e : e.core.kind = "localStorage")

\* the newest record of the buffer is the record of the last log call
LastRecordIsTheCall ==
    /\ lastCall.trace # << >>
    /\ BufferRecords # << >>
    /\ BufferRecords[Len(BufferRecords)]
          = StoredForm(LogEntry(now - 1, lastCall.input[1], extractMessage(lastCall.input[2]),
                                extractEventData(lastCall.input[2], lastCall.input[3]),
                                lastCall.trace[1].source))

\* what initialize(options) is to register under the application name `name`
RegistrationOf(options, name) ==
    (IF options.enableConsoleCore = Bool(FALSE) THEN << >> ELSE <<NewConsoleCoreLogger>>)
    \o (IF options.enableLocalStorageCore = Bool(FALSE) THEN << >>
        ELSE <<NewLocalStorageCoreLogger(name \o "-logs")>>)
    \o options.customCoreLoggers

\* C17: after initialize(options) the registered sinks are exactly one
\* console sink iff console is enabled, then one storage sink keyed
\* "<applicationName>-logs" iff storage is enabled, then the supplied custom
\* sinks in the given order; nothing registered before the call remains.
C17_InitializeRebuildsSinkList ==
    lastCall.op = "initialize" =>
        activeCoreLoggers = RegistrationOf(lastCall.options, applicationName)

\* C17 witness: initialize with the console switched off and two custom
\* sinks left the storage sink followed by the two, in the order given
C17_Witness ==
    /\ lastCall.op = "initialize"
    /\ lastCall.options.enableConsoleCore = Bool(FALSE)
    /\ lastCall.options.customCoreLoggers = <<CustomCoreLogger(2), CustomCoreLogger(1)>>
    /\ activeCoreLoggers = <<NewLocalStorageCoreLogger("application-logs"),
                             CustomCoreLogger(2), CustomCoreLogger(1)>>

\* C18: the list of registered sinks never holds the same sink object
\* twice (setCoreLogger on a registered sink is a no-op), so a log call
\* reaches each sink object at most once.
C18_NoSinkRegisteredTwice ==
    /\ \A i, j \in 1..Len(activeCoreLoggers) :
          i # j => activeCoreLoggers[i] # activeCoreLoggers[j]
    /\ lastCall.op = "log" =>
          \A i, j \in 1..Len(SinkCalls) : i # j => SinkCalls[i].core # SinkCalls[j].core

\* C18 witness: setCoreLogger was called with a sink that initialize had
\* registered together with another custom sink; the list holds it once
C18_Witness ==
    /\ lastCall.op = "setCoreLogger"
    /\ activeCoreLoggers = <<NewConsoleCoreLogger, NewLocalStorageCoreLogger("application-logs"),
                             CustomCoreLogger(2), CustomCoreLogger(1)>>

\* C6: sink isolation: when a registered sink's log throws during a log
\* call, every sink registered after it is still invoked with the same
\* level, message or event, data and source, and the call returns normally.
C6_SinkIsolation ==
    lastCall.op = "log" =>
        /\ lastCall.outcome = "returned"
        /\ \A i \in 1..Len(SinkCalls) :
              SinkCalls[i].threw =>
                  \A j \in (i + 1)..Len(activeCoreLoggers) :
                      /\ j <= Len(SinkCalls)
                      /\ SinkCalls[j].core = activeCoreLoggers[j]
                      /\ <<SinkCalls[j].level, SinkCalls[j].messageOrEvent,
                            SinkCalls[j].data, SinkCalls[j].source>> = lastCall.input

\* C6 witness: the console sink threw on cyclic data, and the two sinks
\* registered after it were invoked
C6_Witness ==
    /\ lastCall.op = "log"
    /\ lastCall.outcome = "returned"
    /\ Len(activeCoreLoggers) >= 3
    /\ Len(SinkCalls) = Len(activeCoreLoggers)
    /\ SinkCalls[1].core.kind = "console"
    /\ SinkCalls[1].threw
    /\ ~SinkCalls[2].threw

\* C7: every log call appends its record to the canonical buffer before any
\* registered sink is invoked, whichever sinks are registered (none
\* included) and whether or not a sink fails.
C7_BufferWrittenFirst ==
    lastCall.op = "log" =>
        /\ lastCall.trace # << >>
        /\ lastCall.trace[1].core = InMemoryTarget
        /\ \A i \in 2..Len(lastCall.trace) : lastCall.trace[i].core.kind # "inMemory"
        /\ Len(SinkCalls) = Len(activeCoreLoggers)
        /\ LastRecordIsTheCall

\* C7 witness: a log call whose first registered sink, one of the caller's
\* own, threw; the record is in the buffer
C7_Witness ==
    /\ lastCall.op = "log"
    /\ Len(lastCall.trace) >= 3
    /\ lastCall.trace[1].core = InMemoryTarget
    /\ lastCall.trace[2].core.kind = "custom"
    /\ lastCall.trace[2].threw
    /\ LastRecordIsTheCall

\* C8: the registered sinks receive the source exactly as the caller gave
\* it, absent when the caller gave none; the derived source goes to the
\* canonical buffer only.
C8_SinksGetCallerSource ==
    lastCall.op = "log" =>
        /\ \A i \in 1..Len(SinkCalls) : SinkCalls[i].source = lastCall.input[4]
        /\ lastCall.input[4] = Undefined =>
              /\ lastCall.trace[1].core = InMemoryTarget
              /\ lastCall.trace[1].source \in {Str("unknown"), Str("Caller.method")}

\* C8 witness: a call without a source reached two sinks, and the buffer got
\* the source derived from the stack
C8_Witness ==
    /\ lastCall.op = "log"
    /\ lastCall.input[4] = Undefined
    /\ Len(SinkCalls) >= 2
    /\ lastCall.trace[1].source = Str("Caller.method")
    /\ BufferRecords[Len(BufferRecords)].source = Str("Caller.method")

\* C9: no public operation of LoggingService throws to its caller while the
\* storage collaborator's getItem, setItem or removeItem fails.
C9_NoPublicOperationThrows ==
    lastCall.fault # "none" => lastCall.outcome = "returned"

\* the storage collaborator failed the storage sink during the last log call
StorageFailedInCall ==
    \/ lastCall.fault # "none"
    \/ \E i \in 1..Len(StorageSinkCalls) :
          localStorage[StorageSinkCalls[i].core.storageKey] = Unparsable

\* C10: when setItem, getItem or the parse of the stored text fails during a
\* log call with the storage sink registered, the failure is caught inside
\* the storage sink, the call returns normally and the record is the newest
\* of the canonical buffer.
C10_StorageFailureContained ==
    (lastCall.op = "log" /\ StorageSinkCalls # << >> /\ StorageFailedInCall) =>
        /\ lastCall.outcome = "returned"
        /\ \A i \in 1..Len(StorageSinkCalls) : ~StorageSinkCalls[i].threw
        /\ LastRecordIsTheCall

\* C10 witness: setItem threw for quota during a log call that reached the
\* storage sink
C10_Witness ==
    /\ lastCall.op = "log"
    /\ lastCall.fault = "quota"
    /\ StorageSinkCalls # << >>
    /\ lastCall.outcome = "returned"
    /\ LastRecordIsTheCall


-----------------------------------------------------------------------------
(* ConsoleSpec: the console sink switched on and off between log calls,    *)
(* on consoles with and without the optional methods info, debug and trace.*)

ConsoleOptions ==
    { Options(Undefined, Undefined, console, Bool(FALSE), << >>) :
        console \in {Undefined, Bool(TRUE), Bool(FALSE)} }

ConsoleInputs ==
    { <<level, Text("m"), data, source>> :
        level \in LogLevel,
        data \in {Undefined, Ref(2)},
        source \in {Undefined, Str("Src")} }

Consoles == SUBSET FullConsole

ConsoleInit ==
    /\ ClassLoaded
    /\ localStorage = [key \in StorageKeys |-> Null]
    /\ storageFault = "none"

ConsoleInitialize == InitializeWith(ConsoleOptions)
ConsoleLog == LogWith(ConsoleInputs, {Str("Caller.method")}, {}, Consoles)

ConsoleNext ==
    \/ ConsoleInitialize
    \/ ConsoleLog

ConsoleSpec == ConsoleInit /\ [][ConsoleNext]_vars

RECURSIVE Printed(_)
\* the console methods invoked during a log call, in order
Printed(trace) ==
    IF trace = << >> THEN << >> ELSE Head(trace).printed \o Printed(Tail(trace))

-----------------------------------------------------------------------------
(* NormalizeSpec: what one call of a level method leaves in the canonical  *)
(* buffer, for text, error-event and event inputs, for each kind of data   *)
(* (plain, special, self-referential, hostile) and of source, and what     *)
(* getLogsAsString renders of it.  No sink is registered.                  *)

NormalizeOptions == { Options(Undefined, Undefined, Bool(FALSE), Bool(FALSE), << >>) }

\* new ErrorEvent('error', { message, filename, lineno, colno, error })
ErrorEvents ==
    { NewErrorEvent("Script error", "script.js", 42, 1, error) :
        error \in {Undefined, Err("Error", "boom", Str("Error: boom at f")),
                   Err("Error", "boom", Undefined)} }

\* new Event('click') dispatched on a button or not dispatched at all
Events == { GenericEvent("click", Str("HTMLButtonElement")), GenericEvent("click", Null) }

\* data whose keys collide with the fields extracted from an event
CollidingData == Obj(<< <<"filename", Str("mine.js")>>, <<"type", Str("mine")>>,
                        <<"userId", Num(42)>> >>)

PlainData == {Undefined, Null, Str("text"), Num(0), Num(42), Bool(FALSE), Bool(TRUE),
              Ref(1), Ref(3), CollidingData}

SpecialData ==
    { Obj(<< <<"fn", Fn("testFunction", FALSE)>> >>),
      Obj(<< <<"list", Arr(<< Fn("arrow", FALSE) >>)>> >>),
      Fn("testFunction", FALSE),
      Obj(<< <<"when", DateOf("2023-01-01T00:00:00.000Z")>>, <<"re", RegExpOf("/a/g")>> >>),
      Obj(<< <<"map", MapOf(<< <<Str("k"), Str("v")>> >>)>>,
             <<"set", SetOf(<< Str("a"), Ref(1) >>)>> >>),
      MapOf(<< <<Str("k"), Str("v")>> >>) }

\* structures that contain themselves, and one that refers to an object twice
SelfReferentialData ==
    { Ref(2), Obj(<< <<"circular", Ref(2)>> >>), Obj(<< <<"o", Ref(7)>> >>),
      Obj(<< <<"m", Ref(5)>> >>), Obj(<< <<"s", Ref(9)>> >>) }
SharedData == { Ref(4), Obj(<< <<"pair", Ref(4)>> >>) }

\* objects whose traversal throws, alone or together with their text conversion
HostileData ==
    { Ref(6),
      Obj(<< <<"inner", Ref(6)>> >>),
      Obj(<< <<"toString", Fn("toString", TRUE)>>, <<"inner", Ref(6)>> >>) }

\* the calls made, <<method, messageOrEvent, data, source>>, each with what
\* determineSource finds on the stack during the call
NormalizeCalls ==
    { <<method, Text("m"), data, Undefined, Str("Caller.method")>> :
        method \in LevelMethods, data \in {Undefined, Ref(1)} }
    \cup { <<"info", Text("m"), data, Undefined, Str("Caller.method")>> :
        data \in PlainData \cup SpecialData \cup SelfReferentialData \cup SharedData
                   \cup HostileData }
    \cup { <<"error", event, data, Undefined, Str("Caller.method")>> :
        event \in ErrorEvents \cup Events,
        data \in PlainData \cup {Obj(<< <<"inner", Ref(6)>> >>)} }
    \cup { <<"info", Text("m"), data, source, derived>> :
        data \in {Undefined, Ref(1)},
        source \in {Undefined, Str(""), Str("Src"), Str("unknown")},
        derived \in {Str("unknown"), Str("method")} }

NormalizeInit ==
    /\ ClassLoaded
    /\ localStorage = [key \in StorageKeys |-> Null]
    /\ storageFault = "none"

NormalizeInitialize == InitializeWith(NormalizeOptions)

\* `input` records <<level, messageOrEvent, data, source, method>>
NormalizeLog ==
    /\ instance
    /\ now <= MaxCalls
    /\ \E call \in NormalizeCalls :
        Logged(levelMethod(Service, storageFault, call[1], call[2], call[3], call[4],
                           now, Env({}, call[5], FullConsole)),
               <<methodLevel(call[1]), call[2], call[3], call[4], call[1]>>)
    /\ now' = now + 1
    /\ UNCHANGED <<storageFault, inserted, capacityFixed>>

NormalizeGetLogsAsString ==
    /\ instance
    /\ \E level \in {NoLevel, "info", "error"} :
        lastCall' = [Call("getLogsAsString", "returned", << >>)
                        EXCEPT !.input = <<level>>,
                               !.result = getLogsAsString(Service, level)]
    /\ UNCHANGED <<serviceVars, inMemoryLogger, now, inserted, capacityFixed>>

NormalizeNext ==
    \/ NormalizeInitialize
    \/ NormalizeLog
    \/ NormalizeGetLogsAsString

NormalizeSpec == NormalizeInit /\ [][NormalizeNext]_vars

\* the record the last log call appended, when it appended one
Appended == BufferRecords[Len(BufferRecords)]
\* the last call was a log call and it appended a record
LogAppended == lastCall.op = "log" /\ Len(BufferRecords) = lastCall.before + 1

\* the call observed last was a level method called with `data`
LoggedData(data) == lastCall.op = "log" /\ lastCall.input[3] = data

RECURSIVE HasCircular(_)
\* the serialized value holds the marker text somewhere
HasCircular(val) ==
    \/ val = Str("[Circular]")
    \/ /\ val.t \in {"object", "array"}
       /\ \E i \in 1..Len(Entries(val)) : HasCircular(Entries(val)[i][2])

\* C21: a level method called with a finite self-referential structure
\* (a cycle through plain objects, arrays, Maps or Sets) returns, stores a
\* record, and the record's data holds "[Circular]" where the cycle closes.
C21_CycleMarked ==
    (lastCall.op = "log" /\ lastCall.input[3] \in SelfReferentialData)
        => /\ lastCall.outcome = "returned"
           /\ LogAppended
           /\ HasCircular(Appended.data)

\* C21 where it does hold: a cycle that passes through a plain object or an
\* array is cut with the marker
C21_ObjectCycleMarked ==
    (lastCall.op = "log"
        /\ lastCall.input[3] \in {Ref(2), Obj(<< <<"circular", Ref(2)>> >>),
                                  Obj(<< <<"o", Ref(7)>> >>)})
        => LogAppended /\ HasCircular(Appended.data)

\* C21: a Map holding itself was logged and what was stored is the text of
\* the whole argument
C21_MapCycleStoredAsText ==
    /\ LoggedData(Obj(<< <<"m", Ref(5)>> >>))
    /\ LogAppended
    /\ Appended.data = Str("[object Object]")

\* data that reaches the serializer and makes its traversal throw
SerializerThrowsOn(data) ==
    /\ Truthy(data)
    /\ ~extractEventDataThrows(Text("m"), data)
    /\ serializer(extractEventData(Text("m"), data), {}, {}).threw

\* C22: the serializer is total: a level method called with data whose
\* traversal or text conversion throws still returns and still stores a
\* record, its data being a text stand-in.
C22_SerializerTotal ==
    (lastCall.op = "log" /\ lastCall.input[2] = Text("m")
        /\ SerializerThrowsOn(lastCall.input[3]))
        => /\ lastCall.outcome = "returned"
           /\ LogAppended
           /\ Appended.data.t = "string"

\* C22 where it does hold: when String(value) succeeds the record is stored
\* with that text as its data
C22_StandInStored ==
    LoggedData(Obj(<< <<"inner", Ref(6)>> >>))
        => LogAppended /\ Appended.data = Str("[object Object]")

\* C22: the call whose data throws both in traversal and in text conversion
\* returned and left the buffer as it was
C22_RecordLost ==
    /\ LoggedData(Obj(<< <<"toString", Fn("toString", TRUE)>>, <<"inner", Ref(6)>> >>))
    /\ lastCall.outcome = "returned"
    /\ Len(BufferRecords) = lastCall.before

\* the data of the last log call makes the canonical store's log lose the record
DataLosesRecord(messageOrEvent, data) ==
    \/ extractEventDataThrows(messageOrEvent, data)
    \/ addEntryThrows(LogEntry(0, "info", "", extractEventData(messageOrEvent, data), Undefined))

\* C23: each level method (trace, debug, info, success, warn, error, fatal)
\* appends exactly one record, carrying that level, and warning(...) does
\* what warn(...) does.
C23_OneRecordWithLevel ==
    lastCall.op = "log"
        => /\ LogAppended
           /\ Appended.level = (IF lastCall.input[5] = "warning" THEN "warn"
                                ELSE lastCall.input[5])

\* C23 where it does hold: with data the serializer handles, one record of
\* the method's level is appended
C23_OneRecordUnlessDataThrows ==
    (lastCall.op = "log" /\ ~DataLosesRecord(lastCall.input[2], lastCall.input[3]))
        => /\ LogAppended
           /\ Appended.level = (IF lastCall.input[5] = "warning" THEN "warn"
                                ELSE lastCall.input[5])

\* C23: warning(...) was called and a record of level warn was appended
C23_WarningStoredAsWarn ==
    /\ lastCall.op = "log"
    /\ lastCall.input[5] = "warning"
    /\ LogAppended
    /\ Appended.level = "warn"

\* C24: getLogsAsString(level) renders exactly the records getLogs(level)
\* returns, in the same order; each rendering holds "[<LEVEL>] <message>",
\* the part " | Data: ..." exactly when the record has data, and the part
\* " | Source: <source>" exactly when the record's source is other than the
\* literal "unknown".
C24_RendersGetLogs ==
    lastCall.op = "getLogsAsString"
        => LET logs == serviceGetLogs(Service, lastCall.input[1])
               rendered == lastCall.result
           IN  /\ Len(rendered) = Len(logs)
               /\ \A i \in 1..Len(logs) :
                     /\ rendered[i].level = toUpperCase(logs[i].level)
                     /\ rendered[i].message = logs[i].message
                     /\ (rendered[i].data # << >>) <=> (logs[i].data # Undefined)
                     /\ (rendered[i].source # << >>) <=> (logs[i].source # Str("unknown"))
                     /\ rendered[i].source # << >> => rendered[i].source = <<logs[i].source.v>>

\* C24: getLogsAsString("info") rendered the one info record, which has
\* data and the source "unknown", and left out the record of another level
C24_Witness ==
    /\ lastCall.op = "getLogsAsString"
    /\ lastCall.input = <<"info">>
    /\ Len(BufferRecords) = 2
    /\ Len(lastCall.result) = 1
    /\ lastCall.result[1].data # << >>
    /\ lastCall.result[1].source = << >>
    /\ serviceGetLogs(Service, "info")[1].source = Str("unknown")

\* C25: "[Circular]" stands only for an object on the current recursion
\* path: data that refers to one object twice without a cycle, { a: x, b: x },
\* is stored with x serialized in full at both places.
C25_SharedSerializedInFull ==
    (lastCall.op = "log" /\ lastCall.input[3] \in SharedData)
        => LogAppended /\ ~HasCircular(Appended.data)

\* C25: { a: x, b: x } was logged and the second reference was stored as the marker
C25_SecondReferenceMarked ==
    /\ LoggedData(Ref(4))
    /\ LogAppended
    /\ Appended.data = Obj(<< <<"a", Obj(<< <<"k", Str("v")>> >>)>>,
                              <<"b", Str("[Circular]")>> >>)

\* a caller's data that is an object with keys of its own
KeyedObject(data) == IsObject(data) /\ Deref(data).t = "object"
\* the keys of a stored data object, in order
Keys(kvs) == [i \in 1..Len(kvs) |-> kvs[i][1]]

\* what the record of an error event holds under `error`: the stack text when
\* the error has one, else the error value, as the serializer stores it
StoredError(error) ==
    IF error.t = "error" /\ Truthy(error.stack) THEN error.stack
    ELSE IF error.t = "error"
    THEN Obj(<< <<"name", Str(error.name)>>, <<"message", Str(error.message)>>,
                <<"stack", error.stack>> >>)
    ELSE error

\* C26: for an error-event input the record's message is
\* "<message> (<filename>:<lineno>)" and its data holds filename, lineno,
\* colno and error (the stack text if the error has one, else the error
\* value); a key the caller supplies overrides the extracted one.
C26_ErrorEventNormalized ==
    (lastCall.op = "log" /\ lastCall.input[2].k = "ErrorEvent"
        /\ lastCall.input[3] \in PlainData)
        => LET event == lastCall.input[2]
               data == lastCall.input[3]
               callers == IF KeyedObject(data) THEN Entries(data) ELSE << >>
           IN  /\ LogAppended
               /\ Appended.message = event.message \o " (" \o event.filename \o ":"
                                        \o NumberToString(event.lineno) \o ")"
               /\ \A field \in {"filename", "lineno", "colno", "error"} :
                     HasKey(Appended.data.kv, field)
               /\ ~HasKey(callers, "filename")
                     => ValueOf(Appended.data.kv, "filename") = Str(event.filename)
               /\ ValueOf(Appended.data.kv, "lineno") = Num(event.lineno)
               /\ ValueOf(Appended.data.kv, "colno") = Num(event.colno)
               /\ ValueOf(Appended.data.kv, "error") = StoredError(event.error)
               /\ \A i \in 1..Len(callers) :
                     ValueOf(Appended.data.kv, callers[i][1]) = callers[i][2]

\* C26: an error event whose error has a stack was logged with data that
\* has a filename of its own: the stack text and the caller's filename are stored
C26_Witness ==
    /\ lastCall.op = "log"
    /\ lastCall.input[2] = NewErrorEvent("Script error", "script.js", 42, 1,
                                         Err("Error", "boom", Str("Error: boom at f")))
    /\ lastCall.input[3] = CollidingData
    /\ LogAppended
    /\ Appended.message = "Script error (script.js:42)"
    /\ ValueOf(Appended.data.kv, "error") = Str("Error: boom at f")
    /\ ValueOf(Appended.data.kv, "filename") = Str("mine.js")

\* the fields extractEventData takes from an event, in order
ExtractedKeys(event) ==
    IF event.k = "ErrorEvent" THEN <<"filename", "lineno", "colno", "error">>
    ELSE <<"type", "target", "timeStamp">>

\* what is stored under an extracted field when the caller gives no data
StoredField(event, field) ==
    CASE field = "filename" -> Str(event.filename)
      [] field = "lineno" -> Num(event.lineno)
      [] field = "colno" -> Num(event.colno)
      [] field = "error" -> StoredError(event.error)
      [] field = "type" -> Str(event.type)
      [] field = "target" -> IF event.target.t = "string" THEN event.target ELSE Undefined
      [] OTHER -> event.timeStamp

\* C27: for an event input, the caller's keyed-object data is shallow-merged
\* over the extracted fields, the caller's value winning on a collision;
\* primitive or null data is stored under the key additionalData; with no
\* data the record's data is the extracted fields alone.
C27_EventDataMerged ==
    (lastCall.op = "log" /\ lastCall.input[2].k \in {"ErrorEvent", "Event"}
        /\ lastCall.input[3] \in PlainData \ {Ref(3)})
        => LET event == lastCall.input[2]
               data == lastCall.input[3]
               extracted == ExtractedKeys(event)
               callers == IF KeyedObject(data) THEN Entries(data) ELSE << >>
               fresh == SelectSeq(Keys(callers),
                                  LAMBDA k : \A i \in 1..Len(extracted) : extracted[i] # k)
               stored == Appended.data.kv
           IN  /\ LogAppended
               /\ Keys(stored) = extracted \o fresh
                                   \o (IF data # Undefined /\ ~KeyedObject(data)
                                       THEN <<"additionalData">> ELSE << >>)
               /\ \A i \in 1..Len(extracted) :
                     ValueOf(stored, extracted[i])
                        = IF HasKey(callers, extracted[i]) THEN ValueOf(callers, extracted[i])
                          ELSE StoredField(event, extracted[i])
               /\ \A i \in 1..Len(callers) : ValueOf(stored, callers[i][1]) = callers[i][2]
               /\ (data # Undefined /\ ~KeyedObject(data))
                     => ValueOf(stored, "additionalData") = data

\* C27: a click event was logged with data whose `type` collides with the
\* extracted field and whose `userId` is new: the caller's type is stored
C27_Witness ==
    /\ lastCall.op = "log"
    /\ lastCall.input[2] = GenericEvent("click", Str("HTMLButtonElement"))
    /\ lastCall.input[3] = CollidingData
    /\ LogAppended
    /\ ValueOf(Appended.data.kv, "type") = Str("mine")
    /\ ValueOf(Appended.data.kv, "userId") = Num(42)
    /\ ValueOf(Appended.data.kv, "target") = Str("HTMLButtonElement")

\* C27: a click event was logged with null for data and the record holds
\* it under additionalData
C27_NullUnderAdditionalData ==
    /\ lastCall.op = "log"
    /\ lastCall.input[2].k = "Event"
    /\ lastCall.input[3] = Null
    /\ LogAppended
    /\ ValueOf(Appended.data.kv, "additionalData") = Null

\* C28: for a plain-text message the record's message is the text and its
\* data is the serialized form of the caller's data itself, whatever its
\* kind (keyed object, array, text, number, boolean); the data is absent
\* when the caller supplied none.
C28_TextDataStoredAsIs ==
    (lastCall.op = "log" /\ lastCall.input[2].k = "text"
        /\ lastCall.input[3] \in PlainData \ {Null})
        => /\ LogAppended
           /\ Appended.message = lastCall.input[2].text
           /\ Appended.data = IF lastCall.input[3] = Undefined THEN Undefined
                              ELSE safeSerialize(lastCall.input[3])

\* C28 where it does hold: a keyed object is stored in its serialized form
\* and absent data stays absent
C28_KeyedObjectStoredAsIs ==
    (lastCall.op = "log" /\ lastCall.input[2].k = "text"
        /\ lastCall.input[3] \in {Undefined, Ref(1), CollidingData})
        => /\ LogAppended
           /\ Appended.message = lastCall.input[2].text
           /\ Appended.data = IF lastCall.input[3] = Undefined THEN Undefined
                              ELSE safeSerialize(lastCall.input[3])

\* C28: info('m', 'text') stored the text under additionalData
C28_TextWrapped ==
    /\ LoggedData(Str("text"))
    /\ lastCall.input[2] = Text("m")
    /\ LogAppended
    /\ Appended.data = Obj(<< <<"additionalData", Str("text")>> >>)

\* C28: info('m', ['a']) stored an object keyed by the array's indices
C28_ArrayStoredAsObject ==
    /\ LoggedData(Ref(3))
    /\ lastCall.input[2] = Text("m")
    /\ LogAppended
    /\ Appended.data = Obj(<< <<"0", Str("a")>> >>)

RECURSIVE HasCallable(_)
\* the stored value is a function or holds one somewhere
HasCallable(val) ==
    \/ val.t = "function"
    \/ /\ val.t \in {"object", "array"}
       /\ \E i \in 1..Len(Entries(val)) : HasCallable(Entries(val)[i][2])

\* C29: a function anywhere in a data payload is stored as its text: no
\* record of the canonical buffer holds a callable value.
C29_NoCallableStored ==
    \A i \in 1..Len(BufferRecords) : ~HasCallable(BufferRecords[i].data)

\* C29: info('m', { fn: function testFunction() {} }) stored the function itself
C29_FunctionStored ==
    /\ LoggedData(Obj(<< <<"fn", Fn("testFunction", FALSE)>> >>))
    /\ LogAppended
    /\ Appended.data = Obj(<< <<"fn", Fn("testFunction", FALSE)>> >>)

\* C30: every record a level method writes to the canonical buffer has a
\* source: the caller's source verbatim when the caller supplied one, else
\* a non-empty derived text, which is "unknown" when the stack gives nothing.
C30_RecordHasSource ==
    /\ \A i \in 1..Len(BufferRecords) :
          BufferRecords[i].source.t = "string" /\ BufferRecords[i].source.v # ""
    /\ (LogAppended /\ Truthy(lastCall.input[4])) => Appended.source = lastCall.input[4]

\* C30: a call with a source and a call without one were made: the first
\* record has the caller's source and the second a derived one
C30_Witness ==
    /\ LogAppended
    /\ Len(BufferRecords) = 2
    /\ BufferRecords[1].source = Str("Src")
    /\ lastCall.input[4] = Undefined
    /\ Appended.source = Str("method")

-----------------------------------------------------------------------------
(* Further claims about broadcast, checked under DispatchSpec.             *)

\* C31: during one log call each registered sink is invoked exactly once,
\* in registration order, with the level, the raw message or event and the
\* data of that call.
C31_EachSinkOnceInOrder ==
    lastCall.op = "log" =>
        /\ Len(SinkCalls) = Len(activeCoreLoggers)
        /\ \A i \in 1..Len(SinkCalls) :
              /\ SinkCalls[i].core = activeCoreLoggers[i]
              /\ <<SinkCalls[i].level, SinkCalls[i].messageOrEvent, SinkCalls[i].data>>
                    = <<lastCall.input[1], lastCall.input[2], lastCall.input[3]>>

\* C31: an event was logged with four sinks registered, the first custom
\* one throwing, and the four were invoked in the order of their registration
C31_Witness ==
    /\ lastCall.op = "log"
    /\ lastCall.input[2] = GenericEvent("click", Null)
    /\ activeCoreLoggers = <<NewConsoleCoreLogger, NewLocalStorageCoreLogger("application-logs"),
                             CustomCoreLogger(2), CustomCoreLogger(1)>>
    /\ [i \in 1..Len(SinkCalls) |-> SinkCalls[i].core] = activeCoreLoggers
    /\ SinkCalls[3].threw
    /\ SinkCalls[4].messageOrEvent = GenericEvent("click", Null)

-----------------------------------------------------------------------------
(* Further claims about configuration, checked under Spec.                 *)

\* C32: getConfiguration() reflects the current state after any sequence of
\* log, clearLogs and initialize calls: enableConsoleCore
\* (enableLocalStorageCore) is true iff a console (storage) sink is
\* registered, maxLogs is the capacity configured last (the default until
\* one is configured), and totalLogs is the number of records getLogs() returns.
C32_ConfigurationReflectsState ==
    [][LET before == getConfiguration(Service)
           after == getConfiguration(Service)'
           options == lastCall'.options
       IN  /\ after.enableConsoleCore <=> (\E i \in 1..Len(SinkKinds') : SinkKinds'[i] = "console")
           /\ after.enableLocalStorageCore
                 <=> (\E i \in 1..Len(SinkKinds') : SinkKinds'[i] = "localStorage")
           /\ after.totalLogs = Len(BufferRecords')
           /\ after.maxLogs = IF lastCall'.op = "initialize" /\ options.maxLogs # Undefined
                              THEN options.maxLogs.v
                              ELSE IF instance THEN before.maxLogs ELSE DefaultMaxLogs
           /\ lastCall'.op = "initialize"
                 => /\ after.enableConsoleCore <=> options.enableConsoleCore # Bool(FALSE)
                    /\ after.enableLocalStorageCore <=> options.enableLocalStorageCore # Bool(FALSE)
           /\ lastCall'.op \in {"log", "clearLogs"}
                 => /\ after.enableConsoleCore = before.enableConsoleCore
                    /\ after.enableLocalStorageCore = before.enableLocalStorageCore]_vars

\* C32: initialize switched the console sink off after a capacity of 2 had
\* been configured and a record logged: the configuration shows all three
C32_Witness ==
    /\ lastCall.op = "initialize"
    /\ lastCall.options.enableConsoleCore = Bool(FALSE)
    /\ getConfiguration(Service).maxLogs = 2
    /\ ~getConfiguration(Service).enableConsoleCore
    /\ getConfiguration(Service).enableLocalStorageCore
    /\ getConfiguration(Service).totalLogs = 2
    /\ \E i \in 1..2 : BufferRecords[i].level = "error"

-----------------------------------------------------------------------------
(* AdoptSpec: initialize is handed sinks of the caller, among them one     *)
(* that implements getLogs and addEntry, as the README's custom in-memory  *)
(* logger does, and with capacities from 0 up.                             *)

AdoptOptions ==
    { Options(Undefined, max, Undefined, storage, customs) :
        max \in {Undefined, Num(0), Num(1)},
        storage \in {Undefined, Bool(FALSE)},
        customs \in {<< >>, <<AdvancedCoreLogger(1)>>,
                     <<CustomCoreLogger(2), AdvancedCoreLogger(1)>>} }

AdoptInputs ==
    { <<"info", Text("m"), Undefined, Undefined>>,
      <<"error", Text("m"), Ref(1), Str("Src")>> }

AdoptInit ==
    /\ ClassLoaded
    /\ localStorage \in {items \in [StorageKeys -> {Null, JsonText(<<OldEntry(1)>>)}] :
                            items[StorageKey("app2")] = Null}
    /\ storageFault = "none"

AdoptInitialize == InitializeWith(AdoptOptions)
AdoptLog == LogWith(AdoptInputs, {Str("Caller.method")}, {}, {FullConsole})

AdoptNext == GetInstance \/ AdoptInitialize \/ AdoptLog \/ ClearLogs

AdoptSpec == AdoptInit /\ [][AdoptNext]_vars

\* the caller's sinks implementing getLogs and addEntry in the options of the last call
AdvancedGiven == SelectSeq(lastCall.options.customCoreLoggers, LAMBDA c : c.kind = "advanced")

\* C33: after initialize was given a customCoreLoggers entry that implements
\* getLogs and addEntry, that object is the canonical in-memory store and is
\* not among the registered broadcast sinks.
C33_AdvancedLoggerAdopted ==
    (lastCall.op = "initialize" /\ AdvancedGiven # << >>)
        => /\ inMemoryLogger.id = Head(AdvancedGiven).id
           /\ \A i \in 1..Len(activeCoreLoggers) : activeCoreLoggers[i] # Head(AdvancedGiven)


\* C33, what the code does instead: initialize begins with getInstance(),
\* which creates the default store, so the caller's object is never adopted
\* and is registered as a broadcast sink like any other
C33_RegisteredAsSink ==
    (lastCall.op = "initialize" /\ AdvancedGiven # << >>)
        => /\ inMemoryLogger.id = NewInMemoryCoreLogger(DefaultMaxLogs).id
           /\ \E i \in 1..Len(activeCoreLoggers) : activeCoreLoggers[i] = Head(AdvancedGiven)


\* C34: after any sequence of getInstance and initialize calls, the maxLogs
\* that getConfiguration reports is the capacity the canonical buffer
\* enforces on its next insertion: the insertion leaves one record more, or
\* maxLogs records when that is fewer.
C34_ConfiguredCapacityEnforced ==
    [][(instance /\ lastCall'.op = "log")
          => LET configured == getConfiguration(Service).maxLogs
                 held == Len(BufferRecords)
             IN  Len(BufferRecords') = IF held + 1 <= configured THEN held + 1 ELSE configured]_vars

\* C34, the part that holds: the Coordinator's maxLogs and the buffer's own
\* maxLogs field never differ
C34_FieldsAgree == instance => getConfiguration(Service).maxLogs = inMemoryLogger.maxLogs

\* C34, the part that holds: a configured capacity of 1 or more is enforced
C34_PositiveCapacityEnforced ==
    [][(instance /\ lastCall'.op = "log" /\ getConfiguration(Service).maxLogs >= 1)
          => LET configured == getConfiguration(Service).maxLogs
                 held == Len(BufferRecords)
             IN  Len(BufferRecords') = IF held + 1 <= configured THEN held + 1 ELSE configured]_vars


-----------------------------------------------------------------------------
(* Further claims about the persisted key, checked under Spec.             *)

\* the buffer after hydration read `stored`: the saved records follow the
\* ones held, trimmed to the newest `max` when any was inserted
Hydrated(held, stored, max) ==
    IF stored.t = "json" /\ stored.v # << >>
    THEN LastN(held \o [i \in 1..Len(stored.v) |-> Restored(stored.v[i])],
               Min(Len(held) + Len(stored.v), max))
    ELSE held

-----------------------------------------------------------------------------
(* Further claims about the canonical buffer and the sink list.            *)

\* the invocations of the canonical buffer's log during the last call
BufferCalls == SelectSeq(lastCall.trace, LAMBDA e : e.core.kind = "inMemory")

\* the canonical buffer object is not among the registered sinks
BufferNotRegistered ==
    \A i \in 1..Len(activeCoreLoggers) :
        /\ activeCoreLoggers[i].kind # "inMemory"
        /\ activeCoreLoggers[i].kind = "advanced" => activeCoreLoggers[i].id # inMemoryLogger.id

\* C36: each log call adds exactly one record to the canonical buffer, the
\* buffer object never being a member of the registered sink list, under
\* any sequence of initialize and setCoreLogger calls (checked under
\* NormalizeSpec, whose calls carry every kind of data).
C36_ExactlyOneRecordAdded ==
    lastCall.op = "log"
        => /\ BufferNotRegistered
           /\ Len(BufferCalls) = 1
           /\ Len(BufferRecords) = Min(lastCall.before + 1, inMemoryLogger.maxLogs)

\* C36, the part that holds (DispatchSpec, AdoptSpec, NormalizeSpec): the
\* buffer is never registered as a sink and is invoked once per log call
C36_BufferInvokedOnce ==
    /\ instance => BufferNotRegistered
    /\ lastCall.op = "log" => Len(BufferCalls) = 1

\* C36, the part that holds (NormalizeSpec): with data the serializer
\* handles, the call adds one record
C36_OneRecordUnlessDataThrows ==
    (lastCall.op = "log" /\ ~DataLosesRecord(lastCall.input[2], lastCall.input[3]))
        => Len(BufferRecords) = Min(lastCall.before + 1, inMemoryLogger.maxLogs)


\* C37: cleared records are not resurrected.  When initialize is the call
\* made right after clearLogs() and leaves applicationName as it was, the
\* canonical buffer is still empty afterwards, whether or not a storage sink
\* was registered when the logs were cleared.
C37_ClearedStaysEmpty ==
    [][(lastCall.op = "clearLogs" /\ lastCall'.op = "initialize"
           /\ applicationName' = applicationName)
          => BufferRecords' = << >>]_vars

\* C37 under DispatchSpec, where storage operations may fail: the same
\* after a clearLogs() that returned
C37_ClearedStaysEmptyAfterReturn ==
    [][(lastCall.op = "clearLogs" /\ lastCall.outcome = "returned"
           /\ lastCall'.op = "initialize" /\ applicationName' = applicationName)
          => BufferRecords' = << >>]_vars

\* C37 witness: every log call was made and persisted by the storage sink,
\* the buffer held records when it was cleared, and an initialize that
\* switched the storage sink off ended with the buffer empty and the key gone
C37_Witness ==
    /\ lastCall.op = "initialize"
    /\ lastCall.options.enableLocalStorageCore = Bool(FALSE)
    /\ now = MaxCalls + 1
    /\ applicationName = "app2"
    /\ BufferRecords = << >>
    /\ localStorage[StorageKey("app2")] = Null
    /\ localStorage[StorageKey(DefaultApplicationName)] # Null


-----------------------------------------------------------------------------
(* RestartSpec: storage starts empty, the level methods are called with    *)
(* the default sinks registered, and the program is restarted: the class   *)
(* initialisers run again while storage keeps what the storage sink wrote, *)
(* and the first getInstance() of the new run hydrates a fresh buffer.     *)

RestartInputs ==
    { <<level, messageOrEvent, Undefined, source>> :
        level \in {"info", "error"},
        messageOrEvent \in {Text("m"), GenericEvent("click", Str("HTMLButtonElement"))},
        source \in {Undefined, Str("Src")} }

RestartInit ==
    /\ ClassLoaded
    /\ localStorage = [key \in StorageKeys |-> Null]
    /\ storageFault = "none"

\* the static fields of LoggingService as the class initialisers leave
\* them, beside the storage the earlier run left
Reloaded(s) ==
    [s EXCEPT !.instance = FALSE, !.applicationName = DefaultApplicationName,
              !.maxLogs = DefaultMaxLogs, !.activeCoreLoggers = << >>,
              !.inMemoryLogger = Null]

RestartLog == LogWith(RestartInputs, {Str("unknown"), Str("Caller.method")}, {}, {FullConsole})

\* the program is started again and creates its Coordinator
Restart ==
    /\ instance
    /\ lastCall.op # "restart"
    /\ BecomesWithin(getInstance(Reloaded(Service), storageFault))
    /\ lastCall' = Call("restart", "returned", << >>)
    /\ UNCHANGED <<storageFault, now, inserted, capacityFixed>>

RestartNext == GetInstance \/ RestartLog \/ Restart

RestartSpec == RestartInit /\ [][RestartNext]_vars

\* the <<level, message, source>> of the records, in buffer order
Triples(records) ==
    [i \in 1..Len(records) |-> <<records[i].level, records[i].message, records[i].source>>]

\* C38: restart equivalence.  Starting from empty storage, after at most
\* min(maxStored, maxLogs) log calls made with the storage sink registered,
\* the buffer a fresh Coordinator hydrates has the same sequence of
\* (level, message, source) as the buffer before the restart, for text and
\* event inputs, with and without an explicit source.
C38_RestartEquivalence ==
    [][lastCall'.op = "restart" => Triples(BufferRecords') = Triples(BufferRecords)]_vars

\* C38, the part that holds: the records of text messages logged with an
\* explicit source come back as they were, and every record comes back with
\* its level, in order
C38_TextWithSourceRestored ==
    [][lastCall'.op = "restart"
          => /\ [i \in 1..Len(BufferRecords') |-> BufferRecords'[i].level]
                   = [i \in 1..Len(BufferRecords) |-> BufferRecords[i].level]
             /\ \A i \in 1..Len(BufferRecords) :
                   (BufferRecords[i].message = "m" /\ BufferRecords[i].source = Str("Src"))
                      => Triples(BufferRecords')[i] = Triples(BufferRecords)[i]]_vars

\* C38, what the code does instead: an event's record comes back with the
\* storage sink's own message "<type> event" and a record logged without a
\* source comes back without one
C38_RestoredAsTheSinkWrote ==
    /\ lastCall.op = "restart"
    /\ Triples(BufferRecords) = << <<"info", "click event", Undefined>>,
                                   <<"error", "m", Str("Src")>> >>

=============================================================================
